---- MODULE Spec2Model ----
(***************************************************************************)
(* Model of the site monitoring and alerting engine of                     *)
(* usgs_multi_alert.py: the threshold evaluator (is_in), the scraped       *)
(* reading validator (fetch_streambeam_latest), the persisted per-site     *)
(* state (SQLite site_state table, legacy JSON state file) and the alert   *)
(* block of main().                                                        *)
(*                                                                         *)
(* Time is counted in ticks of one poll period (the scheduler starts one   *)
(* run per tick); epochs, cooldowns and the run's `now` are tick counts.   *)
(* Optional values (Python None) are sequences of length 0 or 1.  Tables   *)
(* and dicts are functions whose DOMAIN is the set of keys.                *)
(***************************************************************************)
EXTENDS Integers, Sequences, FiniteSets, TLC

VARIABLES
    cfg,        \* the loaded configuration (immutable during a behaviour)
    clock,      \* wall clock, time.time()
    pc,         \* "idle" between runs of main(), "running" inside the site loop
    now,        \* main(): now = time.time(), taken once per run
    idx,        \* position of the `for entry in sites_cfg` loop (1-based)
    db,         \* site_state table as committed in the SQLite file
    conn,       \* site_state table as seen through main()'s connection
    jsonFile,   \* contents of the legacy JSON state file (site -> state dict)
    feed_rows,  \* rows appended to feed_rows in this run (site -> row)
    ev,         \* what the last site cycle did: alerts called, e-mails sent
    lastSent,   \* per site and kind, the time of the last e-mail that was sent
    lastInRange,\* per site, the in_range computed in its most recent cycle
    _streambeam_last_good, \* the in-memory cache of this run's process
    streambeam_last_good, \* the streambeam_last_good table of the SQLite file
    data_bound, \* main()'s local `data` has been assigned in this run
    sb_ev,      \* what the validator did in the last cycle of a scraped site
    accepted,   \* per site, the reading the validator accepted most recently
    procs,      \* two runs of main() overlapping on one site
    fn_in,      \* input of the pure function under check
    fn_out      \* its result

vars == <<cfg, clock, pc, now, idx, db, conn, jsonFile, feed_rows, ev, lastSent,
          lastInRange, _streambeam_last_good, streambeam_last_good, data_bound, sb_ev, accepted, procs,
          fn_in, fn_out>>

----------------------------------------------------------------------------
(* Optional values *)

None == << >>

Some(v) == <<v>>

Val(o) == o[1]

Opt(S) == {None} \cup {Some(v) : v \in S}

Abs(x) == IF x < 0 THEN -x ELSE x

Max2(a, b) == IF a >= b THEN a ELSE b

----------------------------------------------------------------------------
(* Bounds of the model and configuration values *)

\* Largest clock value explored.
MaxTime == 6

\* cooldown_hours * 3600, in ticks.
cooldown_sec == 2

\* out_cooldown_hours * 3600, in ticks.
out_cooldown_sec == 3

\* percent_change_alert.cooldown_hours * 3600, in ticks.
pct_change_cooldown_sec == 2

\* percent_change_alert.threshold_percent (default).
pct_change_threshold == 20

\* The clock when the engine is first installed: epoch time is far larger than
\* any cooldown, so `now - 0 >= cooldown` holds for every kind at the first run.
Now0 == Max2(cooldown_sec, Max2(out_cooldown_sec, pct_change_cooldown_sec))

Sites == {"s1", "s2"}

Kinds == {"IN", "OUT", "PCT_CHANGE"}

\* Gauge heights (ft) and discharges (cfs) a source can report.
StageVals == {0, 4, 5}

CfsVals == {2, 3}

\* Configured minimums (min_ft, min_cfs): gauge height only, discharge only, both.
\* include_discharge is set exactly when min_cfs is.
Thresholds == {[th_ft |-> Some(5), th_cfs |-> None],
               [th_ft |-> None,    th_cfs |-> Some(3)],
               [th_ft |-> Some(5), th_cfs |-> Some(3)]}

----------------------------------------------------------------------------
(* Threshold evaluator *)

is_in_strict(stage, cfs, th_ft, th_cfs) ==
    LET cond_ft  == IF th_ft = None THEN TRUE
                    ELSE (stage # None /\ Val(stage) > Val(th_ft))
        cond_cfs == IF th_cfs = None THEN TRUE
                    ELSE (cfs # None /\ Val(cfs) > Val(th_cfs))
    IN  cond_ft /\ cond_cfs

is_in(stage, cfs, th_ft, th_cfs) ==
    LET cond_ft  == IF th_ft = None THEN TRUE
                    ELSE (stage # None /\ Val(stage) >= Val(th_ft))
        cond_cfs == IF th_cfs = None THEN TRUE
                    ELSE (cfs # None /\ Val(cfs) >= Val(th_cfs))
    IN  cond_ft /\ cond_cfs

----------------------------------------------------------------------------
(* SQLite state: site_state rows *)

\* The dict main() works on when the site has no stored state: every
\* site_state.get(key, default) yields its default.
EmptyState ==
    [last_alert_epoch |-> 0, last_out_epoch |-> 0, last_pct_change_epoch |-> 0,
     last_in |-> FALSE, last_in_epoch |-> 0,
     last_stage_ft |-> None, last_cfs |-> None, last_ts_iso |-> None]

read_site_state(c, site) == IF site \in DOMAIN c THEN c[site] ELSE EmptyState

write_site_state(c, site, state) ==
    [t \in DOMAIN c \cup {site} |-> IF t = site THEN state ELSE c[t]]

RECURSIVE WriteAll(_, _, _)
WriteAll(c, data, todo) ==
    IF todo = {} THEN c
    ELSE LET site == CHOOSE t \in todo : TRUE
         IN  WriteAll(write_site_state(c, site, data[site]), data, todo \ {site})

migrate_json_to_db(data, c) == WriteAll(c, data, DOMAIN data)

get_site_state(site) ==
    IF cfg.state_db THEN read_site_state(conn, site)
    ELSE read_site_state(jsonFile, site)


set_site_state(c, site, state) == write_site_state(c, site, state)

----------------------------------------------------------------------------
(* Alert block of main(), one site cycle *)

\* Rising mode without the edge test.
InRule_level(was_in, in_range, last_alert_t) ==
    in_range /\ (now - last_alert_t >= cooldown_sec)

\* The cooldown test dropped.
InRule_nocooldown(was_in, in_range, last_alert_t) ==
    IF cfg.notify_mode = "rising" THEN (~was_in) /\ in_range
    ELSE in_range

\* Any mode treated as rising mode.
InRule_edgeonly(was_in, in_range, last_alert_t) ==
    (~was_in) /\ in_range /\ (now - last_alert_t >= cooldown_sec)

\* if notify_mode == "rising": ... else: ...
InRule(was_in, in_range, last_alert_t) ==
    IF cfg.notify_mode = "rising"
    THEN (~was_in) /\ in_range /\ (now - last_alert_t >= cooldown_sec)
    ELSE in_range /\ (now - last_alert_t >= cooldown_sec)

\* The OUT rule without the send_out switch.
OutRule_always(was_in, in_range, last_out_t) ==
    was_in /\ (~in_range) /\ (now - last_out_t >= out_cooldown_sec)

OutRule(was_in, in_range, last_out_t) ==
    cfg.send_out /\ was_in /\ (~in_range) /\ (now - last_out_t >= out_cooldown_sec)

\* abs(((stage - last_stage) / last_stage) * 100.0) >= pct_change_threshold,
\* for last_stage > 0.
PctExceeds(stage, last_stage) ==
    Abs(stage - last_stage) * 100 >= pct_change_threshold * last_stage

PctRule(stage, site_state) ==
    /\ cfg.pct_change_enabled
    /\ stage # None
    /\ site_state.last_stage_ft # None
    /\ Val(site_state.last_stage_ft) > 0
    /\ now - site_state.last_pct_change_epoch >= pct_change_cooldown_sec
    /\ PctExceeds(Val(stage), Val(site_state.last_stage_ft))

\* do_in_alert / do_out_alert / do_pct_change_alert return normally iff the
\* subject formats (f"{stage:.2f}" raises TypeError on None) and send_email
\* returns; smtp_ok is whether send_email returns.
AlertReturns(stage, smtp_ok) == stage # None /\ smtp_ok

\* site_state[field] = now, the last statement of each do_*_alert.
RecordFired(state, field, called, returned) ==
    IF called /\ returned THEN [state EXCEPT ![field] = now] ELSE state

\* The try block: IN, then OUT, then PCT_CHANGE; the first exception leaves it.
\* smtp[k] is whether the send_email of kind k would return.
AlertBlock(site_state, stage, in_range, smtp) ==
    LET was_in    == site_state.last_in
        inCall    == InRule(was_in, in_range, site_state.last_alert_epoch)
        inRet     == AlertReturns(stage, smtp["IN"])
        st1       == RecordFired(site_state, "last_alert_epoch", inCall, inRet)
        inRaised  == inCall /\ ~inRet
        outCall   == ~inRaised /\ OutRule(was_in, in_range, site_state.last_out_epoch)
        outRet    == AlertReturns(stage, smtp["OUT"])
        st2       == RecordFired(st1, "last_out_epoch", outCall, outRet)
        outRaised == outCall /\ ~outRet
        pctCall   == ~inRaised /\ ~outRaised /\ PctRule(stage, st2)
        pctRet    == AlertReturns(stage, smtp["PCT_CHANGE"])
        st3       == RecordFired(st2, "last_pct_change_epoch", pctCall, pctRet)
    IN  [state  |-> st3,
         called |-> {k \in Kinds : \/ k = "IN" /\ inCall
                                   \/ k = "OUT" /\ outCall
                                   \/ k = "PCT_CHANGE" /\ pctCall},
         sent   |-> {k \in Kinds : \/ k = "IN" /\ inCall /\ inRet
                                   \/ k = "OUT" /\ outCall /\ outRet
                                   \/ k = "PCT_CHANGE" /\ pctCall /\ pctRet}]

\* "persist last seen" with the transition time taken only when the IN alert
\* of the cycle was delivered.
PersistLastSeen_onalert(state, stage, ts_iso, discharge, in_range, was_in) ==
    LET st == [state EXCEPT !.last_stage_ft = stage, !.last_ts_iso = ts_iso,
                            !.last_cfs = discharge, !.last_in = in_range]
    IN  IF (~was_in) /\ in_range /\ state.last_alert_epoch = now
        THEN [st EXCEPT !.last_in_epoch = now] ELSE st

\* "persist last seen" and the last_in_epoch update.
PersistLastSeen(state, stage, ts_iso, discharge, in_range, was_in) ==
    LET st == [state EXCEPT !.last_stage_ft = stage, !.last_ts_iso = ts_iso,
                            !.last_cfs = discharge, !.last_in = in_range]
    IN  IF (~was_in) /\ in_range THEN [st EXCEPT !.last_in_epoch = now] ELSE st


----------------------------------------------------------------------------
(* Reading validator of scraped sources *)

\* The rate-of-change check rejecting a change equal to max_change_ft.
fetch_streambeam_latest_ge(entry, result, last_good) ==
    LET adjusted_ft == result.adjusted_ft
    IN  IF ~result.ok
        THEN [raised |-> "RuntimeError", reason |-> "fetch failed",
              stage_ft |-> None, last_good |-> last_good]
        ELSE IF adjusted_ft < entry.min_valid_ft \/ adjusted_ft > entry.max_valid_ft
        THEN [raised |-> "ValueError", reason |-> "outside valid range",
              stage_ft |-> None, last_good |-> last_good]
        ELSE IF last_good # None /\ Abs(adjusted_ft - Val(last_good)) >= entry.max_change_ft
        THEN [raised |-> "ValueError", reason |-> "exceeds max change",
              stage_ft |-> None, last_good |-> last_good]
        ELSE [raised |-> "", reason |-> "ok",
              stage_ft |-> Some(adjusted_ft), last_good |-> Some(adjusted_ft)]

\* The validator without the rate-of-change check.
fetch_streambeam_latest_norate(entry, result, last_good) ==
    LET adjusted_ft == result.adjusted_ft
    IN  IF ~result.ok
        THEN [raised |-> "RuntimeError", reason |-> "fetch failed",
              stage_ft |-> None, last_good |-> last_good]
        ELSE IF adjusted_ft < entry.min_valid_ft \/ adjusted_ft > entry.max_valid_ft
        THEN [raised |-> "ValueError", reason |-> "outside valid range",
              stage_ft |-> None, last_good |-> last_good]
        ELSE [raised |-> "", reason |-> "ok",
              stage_ft |-> Some(adjusted_ft), last_good |-> Some(adjusted_ft)]

\* entry: the site's streambeam_min_valid_ft / max_valid_ft / max_change_ft;
\* result: what streambeam_scrape_one returned (ok, adjusted_ft);
\* last_good: _streambeam_last_good.get(site_name).
\* Yields the exception raised ("" for a normal return), the stage returned and
\* the new _streambeam_last_good entry.
fetch_streambeam_latest(entry, result, last_good) ==
    LET adjusted_ft == result.adjusted_ft
    IN  IF ~result.ok
        THEN [raised |-> "RuntimeError", reason |-> "fetch failed",
              stage_ft |-> None, last_good |-> last_good]
        ELSE IF adjusted_ft < entry.min_valid_ft \/ adjusted_ft > entry.max_valid_ft
        THEN [raised |-> "ValueError", reason |-> "outside valid range",
              stage_ft |-> None, last_good |-> last_good]
        ELSE IF last_good # None /\ Abs(adjusted_ft - Val(last_good)) > entry.max_change_ft
        THEN [raised |-> "ValueError", reason |-> "exceeds max change",
              stage_ft |-> None, last_good |-> last_good]
        ELSE [raised |-> "", reason |-> "ok",
              stage_ft |-> Some(adjusted_ft), last_good |-> Some(adjusted_ft)]

----------------------------------------------------------------------------
(* Configurations and initial states *)

\* state_db / state_file of the config: SQLite only, SQLite plus a legacy JSON
\* state file, or the legacy JSON state file alone.
Storages == {[state_db |-> TRUE,  state_file |-> FALSE],
             [state_db |-> TRUE,  state_file |-> TRUE],
             [state_db |-> FALSE, state_file |-> TRUE]}

Configs(siteLists) ==
    {[notify_mode |-> m, send_out |-> so, pct_change_enabled |-> pe,
      th_ft |-> th.th_ft, th_cfs |-> th.th_cfs,
      state_db |-> st.state_db, state_file |-> st.state_file, sites |-> sl,
      source |-> [s \in Sites |-> "usgs"]] :
        m \in {"rising", "any"}, so \in BOOLEAN, pe \in BOOLEAN,
        th \in Thresholds, st \in Storages, sl \in siteLists}

\* State dicts an earlier, JSON-only installation can have left in the legacy
\* state file: written before the clock reached Now0.
LegacyStates ==
    {[EmptyState EXCEPT !.last_alert_epoch = a, !.last_out_epoch = a, !.last_in = b] :
        <<a, b>> \in {<<0, FALSE>>, <<Now0, FALSE>>, <<Now0, TRUE>>}}

LegacyFiles(c) ==
    IF c.state_db /\ c.state_file
    THEN {<< >>} \cup {[s \in {c.sites[1]} |-> st] : st \in LegacyStates}
    ELSE {<< >>}

NoEvent == [site |-> "", cycle |-> "none", called |-> {}, sent |-> {}]

NeverSent == [s \in Sites |-> [k \in Kinds |-> -1]]

NoScrape == [site |-> "", reason |-> "none", stale |-> FALSE]

NoProcs == << >>

\* The first run has not started: no table has a row, no cache an entry.
EngineStart ==
    /\ clock = Now0
    /\ pc = "idle"
    /\ now = Now0
    /\ idx = 1
    /\ db = << >>
    /\ conn = << >>
    /\ feed_rows = << >>
    /\ ev = NoEvent
    /\ lastSent = NeverSent
    /\ lastInRange = [s \in Sites |-> None]
    /\ _streambeam_last_good = << >>
    /\ streambeam_last_good = << >>
    /\ data_bound = FALSE
    /\ sb_ev = NoScrape
    /\ accepted = [s \in Sites |-> None]
    /\ procs = NoProcs

EngineInit(siteLists) ==
    /\ cfg \in Configs(siteLists)
    /\ clock = Now0
    /\ pc = "idle"
    /\ now = Now0
    /\ idx = 1
    /\ db = << >>
    /\ conn = << >>
    /\ jsonFile \in LegacyFiles(cfg)
    /\ feed_rows = << >>
    /\ ev = NoEvent
    /\ lastSent = NeverSent
    /\ lastInRange = [s \in Sites |-> None]
    /\ _streambeam_last_good = << >>
    /\ streambeam_last_good = << >>
    /\ data_bound = FALSE
    /\ sb_ev = NoScrape
    /\ accepted = [s \in Sites |-> None]
    /\ procs = NoProcs

Init ==
    /\ EngineInit({<<"s1">>})
    /\ fn_in = << >>
    /\ fn_out = << >>

----------------------------------------------------------------------------
(* Runs of main() *)

\* _load_streambeam_last_good into the empty cache of a new process; without
\* state_db nothing is loaded.
_load_streambeam_last_good == IF cfg.state_db THEN streambeam_last_good ELSE << >>

\* now = time.time(); conn = open_state_db(state_db); migrate_json_to_db(...);
\* _load_streambeam_last_good(state_db)
StartRun ==
    /\ pc = "idle"
    /\ clock + 1 <= MaxTime
    /\ clock' = clock + 1
    /\ now' = clock + 1
    /\ IF cfg.state_db /\ cfg.state_file
       THEN /\ conn' = migrate_json_to_db(jsonFile, db)
            /\ db' = conn'
       ELSE /\ conn' = db
            /\ db' = db
    /\ pc' = "running"
    /\ idx' = 1
    /\ feed_rows' = << >>
    /\ _streambeam_last_good' = _load_streambeam_last_good
    /\ data_bound' = FALSE
    /\ UNCHANGED <<cfg, jsonFile, ev, lastSent, lastInRange, streambeam_last_good, sb_ev,
                   accepted, procs, fn_in, fn_out>>

\* What fetch_latest can return: the gauge height, the discharge when
\* include_discharge asks for it, and the time stamp of the newest point.
Readings ==
    [stage_ft : Opt(StageVals),
     discharge_cfs : IF cfg.th_cfs = None THEN {None} ELSE Opt(CfsVals),
     ts_iso : {Some(now)}]

\* What get_latest_tva_observation yields: discharge_cfs is the primary
\* measurement, the pool elevation becomes the stage.
TvaReadings ==
    [stage_ft : Opt({5}), discharge_cfs : {Some(3)}, ts_iso : {Some(now)}]

SourceReadings(source) == IF source = "tva" THEN TvaReadings ELSE Readings

SmtpOutcomes == [Kinds -> BOOLEAN]

\* fetch_latest (USGS) or get_latest_tva_observation (TVA) raised an exception
\* that the branch catches: `continue`.
SkipSite ==
    /\ pc = "running"
    /\ idx <= Len(cfg.sites)
    /\ cfg.source[cfg.sites[idx]] \in {"usgs", "tva"}
    /\ idx' = idx + 1
    /\ ev' = [site |-> cfg.sites[idx], cycle |-> "skip", called |-> {}, sent |-> {}]
    /\ sb_ev' = NoScrape
    /\ UNCHANGED <<cfg, clock, pc, now, db, conn, jsonFile, feed_rows, lastSent,
                   lastInRange, _streambeam_last_good, streambeam_last_good, data_bound, accepted, procs,
                   fn_in, fn_out>>

\* One pass of the site loop for a site whose fetch returned `data`, with
\* the send_email outcomes `smtp`: is_in, feed_rows.append, the alert block,
\* "persist last seen", set_site_state.
SiteCycle(site, data, smtp) ==
    LET stage      == data.stage_ft
        discharge  == data.discharge_cfs
        in_range   == is_in(stage, discharge, cfg.th_ft, cfg.th_cfs)
        site_state == get_site_state(site)
        was_in     == site_state.last_in
        res        == AlertBlock(site_state, stage, in_range, smtp)
        final      == PersistLastSeen(res.state, stage, data.ts_iso, discharge,
                                      in_range, was_in)
    IN  /\ feed_rows' = [t \in DOMAIN feed_rows \cup {site} |->
                            IF t = site
                            THEN [stage_ft |-> stage, cfs |-> discharge,
                                  ts_iso |-> data.ts_iso, in_range |-> in_range]
                            ELSE feed_rows[t]]
        /\ IF cfg.state_db
           THEN /\ conn' = set_site_state(conn, site, final)
                /\ UNCHANGED jsonFile
           ELSE /\ jsonFile' = set_site_state(jsonFile, site, final)
                /\ UNCHANGED conn
        /\ ev' = [site |-> site, cycle |-> "done", called |-> res.called,
                  sent |-> res.sent]
        /\ lastSent' = [lastSent EXCEPT ![site] =
                           [k \in Kinds |-> IF k \in res.sent THEN now ELSE @[k]]]
        /\ lastInRange' = [lastInRange EXCEPT ![site] = Some(in_range)]

ProcessSite ==
    /\ pc = "running"
    /\ idx <= Len(cfg.sites)
    /\ cfg.source[cfg.sites[idx]] \in {"usgs", "tva"}
    /\ \E data \in SourceReadings(cfg.source[cfg.sites[idx]]), smtp \in SmtpOutcomes :
          SiteCycle(cfg.sites[idx], data, smtp)
    /\ idx' = idx + 1
    /\ data_bound' = TRUE
    /\ sb_ev' = NoScrape
    /\ UNCHANGED <<cfg, clock, pc, now, db, _streambeam_last_good, streambeam_last_good, accepted, procs,
                   fn_in, fn_out>>

\* After the loop: conn.commit(); conn.close()
EndRun ==
    /\ pc = "running"
    /\ idx > Len(cfg.sites)
    /\ db' = IF cfg.state_db THEN conn ELSE db
    /\ pc' = "idle"
    /\ UNCHANGED <<cfg, clock, now, idx, conn, jsonFile, feed_rows, ev, lastSent,
                   lastInRange, _streambeam_last_good, streambeam_last_good, data_bound, sb_ev, accepted,
                   procs, fn_in, fn_out>>

Next == StartRun \/ SkipSite \/ ProcessSite \/ EndRun

Spec == Init /\ [][Next]_vars

----------------------------------------------------------------------------
(* Runs in which the mail server accepts every message: send_email returns.  *)

Delivered == [k \in Kinds |-> TRUE]

ProcessSiteDelivered ==
    /\ pc = "running"
    /\ idx <= Len(cfg.sites)
    /\ cfg.source[cfg.sites[idx]] \in {"usgs", "tva"}
    /\ \E data \in SourceReadings(cfg.source[cfg.sites[idx]]) :
          SiteCycle(cfg.sites[idx], data, Delivered)
    /\ idx' = idx + 1
    /\ data_bound' = TRUE
    /\ sb_ev' = NoScrape
    /\ UNCHANGED <<cfg, clock, pc, now, db, _streambeam_last_good, streambeam_last_good,
                   accepted, procs, fn_in, fn_out>>

NextDelivered == StartRun \/ SkipSite \/ ProcessSiteDelivered \/ EndRun

SpecDelivered == Init /\ [][NextDelivered]_vars

----------------------------------------------------------------------------
(* Batches of sites of several source kinds; runs that end by an exception *)

Put(f, key, value) == [t \in DOMAIN f \cup {key} |-> IF t = key THEN value ELSE f[t]]

\* streambeam_min_valid_ft, streambeam_max_valid_ft and streambeam_max_change_ft
\* of the scraped sites' config entries.
streambeam_entry == [min_valid_ft |-> 0, max_valid_ft |-> 8, max_change_ft |-> 3]

\* Adjusted gauge heights the scraped page can show.
ScrapedVals == {0, 3, 5, 9}

\* What streambeam_scrape_one returns to the engine.
SiteScrapes ==
    {[ok |-> FALSE, adjusted_ft |-> 0]} \cup {[ok |-> TRUE, adjusted_ft |-> v] : v \in ScrapedVals}

\* The time stamp of a scraped reading after convert_streambeam_timestamp_to_iso:
\* a string, or "" (no value) when the page gave none.
ScrapedStamps == {Some(now), None}

\* The save opens a connection of its own and swallows every exception.  It
\* returns at once without state_db, and it cannot take the write lock (database
\* is locked) while main()'s connection holds uncommitted writes.
_save_streambeam_last_good(site_name, value_ft) ==
    IF cfg.state_db /\ conn = db
    THEN Put(streambeam_last_good, site_name, value_ft)
    ELSE streambeam_last_good

\* _save_streambeam_history: an insert through main()'s connection followed by
\* a commit of that connection; without state_db there is no connection.
_save_streambeam_history == IF cfg.state_db THEN conn ELSE db

\* The streambeam branch without the fallback: a failed fetch or a rejected
\* reading always leaves the site out.
StreamBeamBranch_nofallback(site, result, ts) ==
    LET lg == IF site \in DOMAIN _streambeam_last_good
              THEN Some(_streambeam_last_good[site]) ELSE None
        v  == fetch_streambeam_latest(streambeam_entry, result, lg)
    IN  IF v.raised = ""
        THEN [outcome |-> "fresh", reason |-> v.reason,
              data |-> [stage_ft |-> v.stage_ft, discharge_cfs |-> None, ts_iso |-> ts],
              cache |-> Put(_streambeam_last_good, site, Val(v.last_good)),
              table |-> _save_streambeam_last_good(site, Val(v.last_good)),
              committed |-> IF ts # None THEN _save_streambeam_history ELSE db]
        ELSE [outcome |-> "skip", reason |-> v.reason,
              data |-> [stage_ft |-> lg, discharge_cfs |-> None, ts_iso |-> Some(now)],
              cache |-> _streambeam_last_good,
              table |-> streambeam_last_good,
              committed |-> db]

\* The streambeam branch of the site loop, up to the common processing.
\* outcome "fresh": the reading passed the validator; "stale": it raised and
\* the cached last good value takes its place; "skip": it raised and the cache
\* has no entry (`continue`).
StreamBeamBranch(site, result, ts) ==
    LET lg == IF site \in DOMAIN _streambeam_last_good
              THEN Some(_streambeam_last_good[site]) ELSE None
        v  == fetch_streambeam_latest(streambeam_entry, result, lg)
    IN  IF v.raised = ""
        THEN [outcome |-> "fresh", reason |-> v.reason,
              data |-> [stage_ft |-> v.stage_ft, discharge_cfs |-> None, ts_iso |-> ts],
              cache |-> Put(_streambeam_last_good, site, Val(v.last_good)),
              table |-> _save_streambeam_last_good(site, Val(v.last_good)),
              committed |-> IF ts # None THEN _save_streambeam_history ELSE db]
        ELSE [outcome |-> IF lg # None THEN "stale" ELSE "skip", reason |-> v.reason,
              data |-> [stage_ft |-> lg, discharge_cfs |-> None, ts_iso |-> Some(now)],
              cache |-> _streambeam_last_good,
              table |-> streambeam_last_good,
              committed |-> db]

\* The alert functions read main()'s local `data` (data['url']); on the stale
\* path the fetch raised before assigning it, so it is the value an earlier
\* site of the run left, or unbound (NameError, caught by the alert block).
StaleSends(outcome, smtp) ==
    IF outcome = "stale" /\ ~data_bound THEN [k \in Kinds |-> FALSE] ELSE smtp

\* One pass of the site loop for a scraped site, for the scrape result
\* `result`, the time stamp `ts` of the page and the send_email outcomes `smtp`.
ScrapedCycle(result, ts, smtp) ==
    /\ pc = "running"
    /\ idx <= Len(cfg.sites)
    /\ cfg.source[cfg.sites[idx]] = "streambeam"
    /\ LET site == cfg.sites[idx]
           b    == StreamBeamBranch(site, result, ts)
       IN  /\ _streambeam_last_good' = b.cache
           /\ streambeam_last_good' = b.table
           /\ db' = b.committed
           /\ sb_ev' = [site |-> site, reason |-> b.reason, stale |-> (b.outcome = "stale")]
           /\ accepted' = IF b.outcome = "fresh"
                          THEN [accepted EXCEPT ![site] = b.data.stage_ft]
                          ELSE accepted
           /\ data_bound' = (data_bound \/ b.outcome = "fresh")
           /\ IF b.outcome = "skip"
              THEN /\ ev' = [site |-> site, cycle |-> "skip", called |-> {}, sent |-> {}]
                   /\ UNCHANGED <<conn, jsonFile, feed_rows, lastSent, lastInRange>>
              ELSE SiteCycle(site, b.data, StaleSends(b.outcome, smtp))
    /\ idx' = idx + 1
    /\ UNCHANGED <<cfg, clock, pc, now, procs, fn_in, fn_out>>

ScrapedSite ==
    \E result \in SiteScrapes, ts \in ScrapedStamps, smtp \in SmtpOutcomes :
        ScrapedCycle(result, ts, smtp)

\* What a site's branch hands to the common processing, for every source kind.
CycleInputs(site) ==
    IF cfg.source[site] = "streambeam"
    THEN {b \in {StreamBeamBranch(site, result, ts) :
                    result \in SiteScrapes, ts \in ScrapedStamps} : b.outcome # "skip"}
    ELSE {[outcome |-> "fresh", reason |-> "none", data |-> d,
           cache |-> _streambeam_last_good, table |-> streambeam_last_good,
           committed |-> db] : d \in SourceReadings(cfg.source[site])}

\* set_site_state raises (the SQLite write fails, the JSON file cannot be
\* written): nothing catches it, the exception leaves main() and the process
\* ends.  The alerts of the cycle were dispatched before; the uncommitted writes
\* of the connection are lost; a JSON file opened for writing may be left empty.
WriteFails ==
    /\ pc = "running"
    /\ idx <= Len(cfg.sites)
    /\ \E b \in CycleInputs(cfg.sites[idx]), smtp \in SmtpOutcomes :
          LET site     == cfg.sites[idx]
              stage    == b.data.stage_ft
              in_range == is_in(stage, b.data.discharge_cfs, cfg.th_ft, cfg.th_cfs)
              res      == AlertBlock(get_site_state(site), stage, in_range,
                                     StaleSends(b.outcome, smtp))
          IN  /\ _streambeam_last_good' = b.cache
              /\ streambeam_last_good' = b.table
              /\ db' = b.committed
              /\ conn' = b.committed
              /\ sb_ev' = IF cfg.source[site] = "streambeam"
                          THEN [site |-> site, reason |-> b.reason,
                                stale |-> (b.outcome = "stale")]
                          ELSE NoScrape
              /\ accepted' = IF cfg.source[site] = "streambeam" /\ b.outcome = "fresh"
                             THEN [accepted EXCEPT ![site] = stage]
                             ELSE accepted
              /\ feed_rows' = Put(feed_rows, site,
                                  [stage_ft |-> stage, cfs |-> b.data.discharge_cfs,
                                   ts_iso |-> b.data.ts_iso, in_range |-> in_range])
              /\ ev' = [site |-> site, cycle |-> "abort", called |-> res.called,
                        sent |-> res.sent]
              /\ lastSent' = [lastSent EXCEPT ![site] =
                                 [k \in Kinds |-> IF k \in res.sent THEN now ELSE @[k]]]
              /\ lastInRange' = [lastInRange EXCEPT ![site] = Some(in_range)]
    /\ jsonFile' \in IF cfg.state_db THEN {jsonFile} ELSE {jsonFile, << >>}
    /\ pc' = "idle"
    /\ UNCHANGED <<cfg, clock, now, idx, data_bound, procs, fn_in, fn_out>>

\* fetch_latest raises an exception that is none of URLError, HTTPError,
\* RuntimeError, ValueError (a socket timeout while the response is read):
\* nothing catches it, the exception leaves main() and the process ends.
FetchRaises ==
    /\ pc = "running"
    /\ idx <= Len(cfg.sites)
    /\ cfg.source[cfg.sites[idx]] = "usgs"
    /\ conn' = db
    /\ ev' = [site |-> cfg.sites[idx], cycle |-> "crash", called |-> {}, sent |-> {}]
    /\ sb_ev' = NoScrape
    /\ pc' = "idle"
    /\ UNCHANGED <<cfg, clock, now, idx, db, jsonFile, feed_rows, lastSent, lastInRange,
                   _streambeam_last_good, streambeam_last_good, data_bound, accepted,
                   procs, fn_in, fn_out>>

\* Two sites per run: a USGS site followed by a scraped site (SQLite state), or
\* a scraped site followed by a TVA site (SQLite state, or the JSON state file).
BatchLayouts ==
    {[state_db |-> TRUE,  kinds |-> <<"usgs", "streambeam">>],
     [state_db |-> TRUE,  kinds |-> <<"streambeam", "tva">>],
     [state_db |-> FALSE, kinds |-> <<"streambeam", "tva">>]}

BatchConfigs ==
    {[notify_mode |-> "rising", send_out |-> FALSE, pct_change_enabled |-> FALSE,
      th_ft |-> Some(5), th_cfs |-> None,
      state_db |-> l.state_db, state_file |-> ~l.state_db, sites |-> <<"s1", "s2">>,
      source |-> [s \in Sites |-> IF s = "s1" THEN l.kinds[1] ELSE l.kinds[2]]] :
        l \in BatchLayouts}

InitBatch ==
    /\ cfg \in BatchConfigs
    /\ jsonFile = << >>
    /\ EngineStart
    /\ fn_in = << >>
    /\ fn_out = << >>

NextBatch ==
    StartRun \/ SkipSite \/ ProcessSite \/ ScrapedSite \/ WriteFails \/ FetchRaises \/ EndRun

SpecBatch == InitBatch /\ [][NextBatch]_vars


----------------------------------------------------------------------------
(* The validator over an unbounded sequence of runs: one scraped site with     *)
(* SQLite state, run after run by the scheduler.  The validator and the        *)
(* fallback read no clock, so the time of the runs is left at Now0 here and    *)
(* the states of a run that changes nothing repeat.  fn_in is what the         *)
(* scraped page shows (the result of streambeam_scrape_one).                   *)

LockSite == "s1"

LockConfigs ==
    {[notify_mode |-> "rising", send_out |-> FALSE, pct_change_enabled |-> FALSE,
      th_ft |-> Some(5), th_cfs |-> None,
      state_db |-> TRUE, state_file |-> FALSE, sites |-> <<LockSite>>,
      source |-> [s \in Sites |-> "streambeam"]]}

InitLock ==
    /\ cfg \in LockConfigs
    /\ jsonFile = << >>
    /\ EngineStart
    /\ fn_in \in SiteScrapes
    /\ fn_out = << >>

\* A new process: conn = open_state_db(state_db); _load_streambeam_last_good.
LockStartRun ==
    /\ pc = "idle"
    /\ conn' = db
    /\ pc' = "running"
    /\ idx' = 1
    /\ feed_rows' = << >>
    /\ _streambeam_last_good' = _load_streambeam_last_good
    /\ data_bound' = FALSE
    /\ UNCHANGED <<cfg, clock, now, db, jsonFile, ev, lastSent, lastInRange,
                   streambeam_last_good, sb_ev, accepted, procs, fn_in, fn_out>>

\* The cycle of the site on what the page shows.
LockCycle ==
    \E ts \in ScrapedStamps, smtp \in SmtpOutcomes : ScrapedCycle(fn_in, ts, smtp)

\* Between two runs the page comes to show something else.
PageChanges ==
    /\ pc = "idle"
    /\ fn_in' \in SiteScrapes \ {fn_in}
    /\ UNCHANGED <<cfg, clock, pc, now, idx, db, conn, jsonFile, feed_rows, ev, lastSent,
                   lastInRange, _streambeam_last_good, streambeam_last_good, data_bound,
                   sb_ev, accepted, procs, fn_out>>

NextLock == LockStartRun \/ LockCycle \/ EndRun \/ PageChanges

\* The scheduler starts main() again and again, and a run that started goes
\* through its site loop to its end.
SpecLock ==
    /\ InitLock
    /\ [][NextLock]_vars
    /\ WF_vars(LockStartRun)
    /\ WF_vars(LockCycle)
    /\ WF_vars(EndRun)

\* The page shows the reading v.
Shows(v) == fn_in = [ok |-> TRUE, adjusted_ft |-> v]

\* The reading v is the last known good value and the site is served from a
\* fresh reading.
ServedFresh(v) ==
    /\ LockSite \in DOMAIN streambeam_last_good
    /\ streambeam_last_good[LockSite] = v
    /\ sb_ev.reason = "ok"
    /\ ~sb_ev.stale

\* C28 (as claimed): if from some cycle on the page shows the same value
\* within [min_valid_ft, max_valid_ft] in every cycle, then that value is
\* eventually accepted as the last known good value and the site is no longer
\* served from the fallback.
C28_Claim ==
    \A v \in {x \in ScrapedVals : streambeam_entry.min_valid_ft <= x
                                     /\ x <= streambeam_entry.max_valid_ft} :
        (<>[]Shows(v)) => <>ServedFresh(v)

\* C28, the values within max_change_ft of the stored last known good value:
\* a run that finds such a value on the page accepts it.
C28_AcceptedWhenClose ==
    [][\A v \in ScrapedVals :
          (/\ Shows(v)
           /\ pc = "running" /\ idx' = idx + 1
           /\ streambeam_entry.min_valid_ft <= v /\ v <= streambeam_entry.max_valid_ft
           /\ (LockSite \in DOMAIN _streambeam_last_good =>
                  Abs(v - _streambeam_last_good[LockSite]) <= streambeam_entry.max_change_ft))
          => ServedFresh(v)']_vars

\* The stored last known good value is 0 ft, the page shows 5 ft and the run
\* served the 0 ft from the fallback.
C28_Locked ==
    /\ Shows(5)
    /\ pc = "idle"
    /\ LockSite \in DOMAIN streambeam_last_good
    /\ streambeam_last_good[LockSite] = 0
    /\ sb_ev.stale
    /\ sb_ev.reason = "exceeds max change"
    /\ feed_rows[LockSite].stage_ft = Some(0)

----------------------------------------------------------------------------
(* Vocabulary of the claims about the alert state machine *)

\* The site state as stored: the SQLite row, or the entry of the JSON file.
Stored(d, j, site) ==
    IF cfg.state_db THEN read_site_state(d, site) ELSE read_site_state(j, site)

\* The step is a complete cycle of the site at the loop position.
CycleStep == pc = "running" /\ idx <= Len(cfg.sites) /\ idx' = idx + 1 /\ ev'.cycle = "done"

CurSite == cfg.sites[idx]

\* State read at the start of the cycle, state written at its end, and the
\* row the cycle publishes.
Before == Stored(db, jsonFile, CurSite)

After == Stored(conn', jsonFile', CurSite)

Row == feed_rows'[CurSite]

EpochField(k) ==
    CASE k = "IN" -> "last_alert_epoch"
      [] k = "OUT" -> "last_out_epoch"
      [] k = "PCT_CHANGE" -> "last_pct_change_epoch"

CooldownOf(k) ==
    CASE k = "IN" -> cooldown_sec
      [] k = "OUT" -> out_cooldown_sec
      [] k = "PCT_CHANGE" -> pct_change_cooldown_sec

\* C2: in rising mode a cycle calls the IN alert iff the stored last_in is
\* false, the computed in_range is true and now - last_alert_epoch >= cooldown;
\* a cycle whose fetch failed calls no alert.
C2_RisingFiresIff ==
    [][/\ (cfg.notify_mode = "rising" /\ CycleStep) =>
            (("IN" \in ev'.called) <=>
                (/\ ~Before.last_in
                 /\ Row.in_range
                 /\ now - Before.last_alert_epoch >= cooldown_sec))
       /\ (ev'.cycle = "skip") => (ev'.called = {})]_vars

C2_Witness ==
    /\ cfg.notify_mode = "rising"
    /\ ev.cycle = "done"
    /\ "IN" \in ev.called

\* C3 (as claimed): in rising mode every OUT->IN edge cycle sends one IN alert
\* and no other cycle sends one.
C3_Claim ==
    [][(cfg.notify_mode = "rising" /\ CycleStep) =>
          (("IN" \in ev'.sent) <=> (~Before.last_in /\ Row.in_range))]_vars

\* C3 (amended): in rising mode an IN alert is sent only in an OUT->IN edge
\* cycle whose cooldown has elapsed, such a cycle attempts exactly one, and a
\* cycle that is no edge (stored last_in true, or not in range) neither attempts
\* nor sends one; the time of the last sent IN alert is the edge cycle's now.
C3_RisingAtMostOncePerEdge ==
    [][(cfg.notify_mode = "rising" /\ CycleStep) =>
          LET edge == ~Before.last_in /\ Row.in_range
              cool == now - Before.last_alert_epoch >= cooldown_sec
          IN  /\ ("IN" \in ev'.sent) => (edge /\ cool /\ lastSent'[CurSite]["IN"] = now)
              /\ (edge /\ cool) => ("IN" \in ev'.called)
              /\ (~edge) => /\ "IN" \notin ev'.called
                            /\ "IN" \notin ev'.sent
                            /\ lastSent'[CurSite]["IN"] = lastSent[CurSite]["IN"]]_vars

\* A site that stays in range after its edge alert was sent: a cooldown later
\* it is still in range and the cycle calls no IN alert.
C3_Witness ==
    /\ cfg.notify_mode = "rising"
    /\ ~cfg.state_file
    /\ ev.cycle = "done"
    /\ "IN" \notin ev.called
    /\ get_site_state(ev.site).last_in
    /\ lastSent[ev.site]["IN"] >= 0
    /\ now - lastSent[ev.site]["IN"] >= cooldown_sec
    /\ get_site_state(ev.site).last_in_epoch = lastSent[ev.site]["IN"]

\* An edge cycle in rising mode whose cooldown had not elapsed: no IN alert is
\* called, and the site is stored as in range from now on.
C3_EdgeInsideCooldown ==
    /\ cfg.notify_mode = "rising"
    /\ ev.cycle = "done"
    /\ "IN" \notin ev.called
    /\ get_site_state(ev.site).last_in
    /\ get_site_state(ev.site).last_in_epoch = now

\* C4: in any mode a cycle calls the IN alert iff in_range is true and
\* now - last_alert_epoch >= cooldown, whatever the stored last_in; so a cycle
\* in range at least a cooldown after the last sent IN alert calls it again.
C4_AnyFiresIff ==
    [][(cfg.notify_mode = "any" /\ CycleStep) =>
          /\ ("IN" \in ev'.called) <=>
                (Row.in_range /\ now - Before.last_alert_epoch >= cooldown_sec)
          /\ (/\ Row.in_range
              /\ lastSent[CurSite]["IN"] >= 0
              /\ now - lastSent[CurSite]["IN"] >= cooldown_sec) => ("IN" \in ev'.called)]_vars

\* A refire: the alert is sent in a cycle of a site that was already in range
\* when the cycle began.
C4_Witness ==
    /\ cfg.notify_mode = "any"
    /\ ~cfg.state_file
    /\ ev.cycle = "done"
    /\ "IN" \in ev.sent
    /\ get_site_state(ev.site).last_in_epoch > 0
    /\ get_site_state(ev.site).last_in_epoch + cooldown_sec <= now

\* C5: two sent alerts of one kind for one site are at least that kind's
\* cooldown apart, over all runs.
C5_Claim ==
    [][CycleStep =>
          \A k \in ev'.sent :
              \/ lastSent[CurSite][k] < 0
              \/ now - lastSent[CurSite][k] >= CooldownOf(k)]_vars

\* C6: a cycle calls the OUT alert iff send_out is enabled, the stored last_in
\* is true, in_range is false and now - last_out_epoch >= out_cooldown.
C6_OutFiresIff ==
    [][CycleStep =>
          /\ ("OUT" \in ev'.called) <=>
                (/\ cfg.send_out
                 /\ Before.last_in
                 /\ ~Row.in_range
                 /\ now - Before.last_out_epoch >= out_cooldown_sec)
          /\ (~cfg.send_out \/ ~Before.last_in) => ("OUT" \notin ev'.sent)]_vars

C6_Witness ==
    /\ ev.cycle = "done"
    /\ "OUT" \in ev.sent
    /\ ~cfg.state_file

\* The firing rule of each kind, on the state read at the start of the cycle.
RuleHolds(k) ==
    CASE k = "IN" ->
            IF cfg.notify_mode = "rising"
            THEN ~Before.last_in /\ Row.in_range
                     /\ now - Before.last_alert_epoch >= cooldown_sec
            ELSE Row.in_range /\ now - Before.last_alert_epoch >= cooldown_sec
      [] k = "OUT" ->
            /\ cfg.send_out /\ Before.last_in /\ ~Row.in_range
            /\ now - Before.last_out_epoch >= out_cooldown_sec
      [] k = "PCT_CHANGE" ->
            /\ cfg.pct_change_enabled
            /\ Row.stage_ft # None
            /\ Before.last_stage_ft # None
            /\ Val(Before.last_stage_ft) > 0
            /\ now - Before.last_pct_change_epoch >= pct_change_cooldown_sec
            /\ Abs(Val(Row.stage_ft) - Val(Before.last_stage_ft)) * 100
                   >= pct_change_threshold * Val(Before.last_stage_ft)

\* C7, first part: a cycle sets a kind's cooldown timestamp to now when that
\* kind's alert was sent and leaves it as it was otherwise, and the cycle
\* completes (the site state is written) whatever the dispatches did.
C7_CooldownOnlyOnSuccess ==
    [][CycleStep =>
          /\ \A k \in Kinds :
                After[EpochField(k)] =
                    IF k \in ev'.sent THEN now ELSE Before[EpochField(k)]
          /\ After.last_in = Row.in_range]_vars

C8_Claim ==
    \A s \in Sites :
        lastInRange[s] # None => get_site_state(s).last_in = Val(lastInRange[s])

\* C8, the cycle's write: last_in, last_stage, last_ts and last_cfs are what
\* the cycle read and computed, whatever the dispatches did.
C8_CycleOverwrites ==
    [][CycleStep =>
          /\ After.last_in = Row.in_range
          /\ After.last_stage_ft = Row.stage_ft
          /\ After.last_cfs = Row.cfs
          /\ After.last_ts_iso = Row.ts_iso]_vars

\* C9: no step makes a stored cooldown timestamp smaller.
C9_Claim ==
    [][\A s \in Sites : \A k \in Kinds :
          Stored(db', jsonFile', s)[EpochField(k)] >= Stored(db, jsonFile, s)[EpochField(k)]]_vars


\* C27: a cycle sets last_in_epoch to its now when the stored last_in was false
\* and the computed in_range is true, whether or not the IN alert of the cycle
\* fired or was delivered; every other cycle leaves last_in_epoch as it was,
\* and so does a cycle whose fetch failed.
C27_LastInEpochOnTransition ==
    [][/\ CycleStep =>
            (After.last_in_epoch = IF (~Before.last_in) /\ Row.in_range
                                   THEN now ELSE Before.last_in_epoch)
       /\ (ev'.cycle = "skip" /\ pc = "running" /\ idx <= Len(cfg.sites)) =>
            (After.last_in_epoch = Before.last_in_epoch)]_vars

\* A transition cycle whose IN alert was dispatched and failed: the transition
\* time is the cycle's now, the cooldown timestamp is not.
C27_Witness ==
    /\ ev.cycle = "done"
    /\ "IN" \in ev.called /\ "IN" \notin ev.sent
    /\ get_site_state(ev.site).last_in
    /\ get_site_state(ev.site).last_in_epoch = now
    /\ get_site_state(ev.site).last_alert_epoch # now

\* A cycle that stays in range after an earlier transition keeps the time of
\* that transition.
C27_Kept ==
    /\ ev.cycle = "done"
    /\ get_site_state(ev.site).last_in
    /\ get_site_state(ev.site).last_in_epoch > 0
    /\ get_site_state(ev.site).last_in_epoch < now

\* The cycle is one of a site whose only threshold is min_cfs, on a reading
\* with a discharge and without a stage.
FlowOnlyCycle ==
    /\ CycleStep
    /\ cfg.th_ft = None /\ cfg.th_cfs # None
    /\ Row.stage_ft = None /\ Row.cfs # None

\* C30 (as claimed), with a mail server that accepts every message: in a cycle
\* of a site whose only threshold is min_cfs and whose reading has a discharge
\* and no stage, an IN or OUT alert whose rule holds is sent and its cooldown
\* timestamp is set to the cycle's now.
C30_Claim ==
    [][FlowOnlyCycle =>
          \A k \in {"IN", "OUT"} :
              (k \in ev'.called) => (k \in ev'.sent /\ After[EpochField(k)] = now)]_vars

\* C30, the cycles whose reading has a stage: an alert whose rule holds is sent
\* and its cooldown timestamp is set to the cycle's now.
C30_SentWhenStagePresent ==
    [][(CycleStep /\ Row.stage_ft # None) =>
          \A k \in Kinds :
              (k \in ev'.called) => (k \in ev'.sent /\ After[EpochField(k)] = now)]_vars

\* A site with min_cfs alone came into range on a reading without a stage:
\* the IN alert was called for, none was sent, and the stored state has the
\* site in range with its cooldown timestamp at 0.
C30_AlertLost ==
    /\ cfg.th_ft = None /\ cfg.th_cfs # None
    /\ ev.cycle = "done"
    /\ feed_rows[ev.site].stage_ft = None
    /\ feed_rows[ev.site].in_range
    /\ "IN" \in ev.called /\ "IN" \notin ev.sent
    /\ get_site_state(ev.site).last_in
    /\ get_site_state(ev.site).last_alert_epoch = 0

\* The percent-change rule as the claims state it, on the state read at the
\* start of the cycle and the stage of the cycle's row.
PctCalledFor ==
    /\ cfg.pct_change_enabled
    /\ Row.stage_ft # None
    /\ Before.last_stage_ft # None
    /\ Val(Before.last_stage_ft) > 0
    /\ now - Before.last_pct_change_epoch >= pct_change_cooldown_sec
    /\ Abs(Val(Row.stage_ft) - Val(Before.last_stage_ft)) * 100
           >= pct_change_threshold * Val(Before.last_stage_ft)

\* C22 (as claimed): a cycle dispatches the percent-change alert iff
\* percent-change alerting is enabled, the stage is present, a stored previous
\* stage > 0 exists, its cooldown has elapsed and the change reaches the
\* threshold, whatever the IN and OUT alerts of the cycle did.
C22_Claim ==
    [][CycleStep => (("PCT_CHANGE" \in ev'.called) <=> PctCalledFor)]_vars

\* C22, the cycles in which no IN or OUT alert failed: the same.
C22_PctIffWhenNoneFailed ==
    [][(CycleStep /\ (ev'.called \ {"PCT_CHANGE"}) \subseteq ev'.sent) =>
            (("PCT_CHANGE" \in ev'.called) <=> PctCalledFor)]_vars

----------------------------------------------------------------------------
(* Two runs of main() that overlap in time, on one site with SQLite state.  *)
(* Both take their `now` within the same tick.  Each run is a process with  *)
(* a connection of its own; nothing but the SQLite write lock stands        *)
(* between them.                                                            *)

Runs == {1, 2}

OverlapSite == "s1"

OverlapConfigs ==
    {c \in Configs({<<OverlapSite>>}) :
        /\ c.state_db /\ ~c.state_file
        /\ ~c.send_out /\ ~c.pct_change_enabled
        /\ c.th_cfs = None}

\* at: "idle" before the run reaches the site, "read" after get_site_state, the
\* alert block and "persist last seen" (site_state holds the dict to write),
\* "written" after set_site_state (the connection holds the write lock),
\* "done" after the commit or after the exception that ended the process.
InitOverlap ==
    /\ cfg \in OverlapConfigs
    /\ jsonFile = << >>
    /\ clock = Now0
    /\ pc = "idle"
    /\ now = Now0
    /\ idx = 1
    /\ db = << >>
    /\ conn = << >>
    /\ feed_rows = << >>
    /\ ev = NoEvent
    /\ lastSent = NeverSent
    /\ lastInRange = [s \in Sites |-> None]
    /\ _streambeam_last_good = << >>
    /\ streambeam_last_good = << >>
    /\ data_bound = FALSE
    /\ sb_ev = NoScrape
    /\ accepted = [s \in Sites |-> None]
    /\ procs = [p \in Runs |-> [at |-> "idle", site_state |-> EmptyState]]
    /\ fn_in = << >>
    /\ fn_out = << >>

overlapFrame == <<cfg, pc, idx, conn, jsonFile, feed_rows, lastInRange,
                  _streambeam_last_good, streambeam_last_good, data_bound, sb_ev,
                  accepted, fn_in, fn_out>>

\* The scheduler's next tick: the runs of the tick before have ended.
OvTick ==
    /\ \A p \in Runs : procs[p].at \in {"idle", "done"}
    /\ clock + 1 <= MaxTime
    /\ clock' = clock + 1
    /\ now' = clock + 1
    /\ procs' = [p \in Runs |-> [procs[p] EXCEPT !.at = "idle"]]
    /\ UNCHANGED <<db, ev, lastSent, overlapFrame>>

\* Run p: get_site_state (a read of the committed table: the other run's
\* uncommitted write is not visible), the alert block with its e-mails, and
\* "persist last seen" on the dict.
OvRead(p) ==
    /\ procs[p].at = "idle"
    /\ \E data \in Readings, smtp \in SmtpOutcomes :
          LET in_range   == is_in(data.stage_ft, data.discharge_cfs, cfg.th_ft, cfg.th_cfs)
              site_state == read_site_state(db, OverlapSite)
              res        == AlertBlock(site_state, data.stage_ft, in_range, smtp)
              final      == PersistLastSeen(res.state, data.stage_ft, data.ts_iso,
                                            data.discharge_cfs, in_range, site_state.last_in)
          IN  /\ procs' = [procs EXCEPT ![p] = [at |-> "read", site_state |-> final]]
              /\ ev' = [site |-> OverlapSite, cycle |-> "read", called |-> res.called,
                        sent |-> res.sent]
              /\ lastSent' = [lastSent EXCEPT ![OverlapSite] =
                                 [k \in Kinds |-> IF k \in res.sent THEN now ELSE @[k]]]
    /\ UNCHANGED <<clock, now, db, overlapFrame>>

\* Run p: set_site_state. The INSERT takes the write lock of the database,
\* which is free unless the other run has written and not yet committed.
OvWrite(p) ==
    /\ procs[p].at = "read"
    /\ \A q \in Runs \ {p} : procs[q].at # "written"
    /\ procs' = [procs EXCEPT ![p].at = "written"]
    /\ UNCHANGED <<clock, now, db, ev, lastSent, overlapFrame>>

\* Run p: set_site_state while the other run holds the write lock for longer
\* than the connection's timeout: "database is locked" leaves main().
OvLocked(p) ==
    /\ procs[p].at = "read"
    /\ \E q \in Runs \ {p} : procs[q].at = "written"
    /\ procs' = [procs EXCEPT ![p].at = "done"]
    /\ UNCHANGED <<clock, now, db, ev, lastSent, overlapFrame>>

\* Run p: conn.commit() at the end of main().
OvCommit(p) ==
    /\ procs[p].at = "written"
    /\ db' = write_site_state(db, OverlapSite, procs[p].site_state)
    /\ procs' = [procs EXCEPT ![p].at = "done"]
    /\ UNCHANGED <<clock, now, ev, lastSent, overlapFrame>>

NextOverlap ==
    \/ OvTick
    \/ \E p \in Runs : OvRead(p)
    \/ \E p \in Runs : OvWrite(p)
    \/ \E p \in Runs : OvLocked(p)
    \/ \E p \in Runs : OvCommit(p)

SpecOverlap == InitOverlap /\ [][NextOverlap]_vars

\* C16 (as claimed): a run reads the site state only while the other run is
\* not between its own read and the commit of its write, so the alerts the two
\* runs send are at least a cooldown apart.
C16_Claim ==
    [][\A p \in Runs :
          (procs[p].at = "idle" /\ procs'[p].at = "read") =>
              /\ \A q \in Runs \ {p} : procs[q].at \notin {"read", "written"}
              /\ \A k \in ev'.sent :
                    \/ lastSent[OverlapSite][k] < 0
                    \/ now - lastSent[OverlapSite][k] >= CooldownOf(k)]_vars

\* C16, the alerts alone: no alert is sent within a cooldown of the last sent
\* alert of its kind.
C16_NoDuplicateAlert ==
    [][\A p \in Runs :
          (procs[p].at = "idle" /\ procs'[p].at = "read") =>
              \A k \in ev'.sent :
                  \/ lastSent[OverlapSite][k] < 0
                  \/ now - lastSent[OverlapSite][k] >= CooldownOf(k)]_vars

----------------------------------------------------------------------------
(* Claims about failures: failed fetches, rejected readings, failed writes *)

\* The step is a pass of the site loop for a scraped site whose reading was
\* rejected or could not be fetched, and the run goes on.
ScrapeFailStep ==
    /\ pc = "running"
    /\ idx <= Len(cfg.sites)
    /\ idx' = idx + 1
    /\ sb_ev'.site = CurSite
    /\ sb_ev'.reason \in {"fetch failed", "outside valid range", "exceeds max change"}

\* The site is left out of the cycle: no alert, no row, no state write.
Excluded ==
    /\ ev'.cycle = "skip"
    /\ ev'.called = {}
    /\ ev'.sent = {}
    /\ UNCHANGED <<db, conn, jsonFile, feed_rows, lastSent>>

\* C11 (as claimed): a cycle of a scraped site whose reading is rejected or
\* cannot be fetched reports the most recently validated reading of the site
\* when there is one (so every failing cycle after a valid reading reports that
\* reading), and leaves the site out when there is none.
C11_Claim ==
    [][ScrapeFailStep =>
          IF accepted[CurSite] # None
          THEN ev'.cycle = "done" /\ Row.stage_ft = accepted[CurSite]
          ELSE Excluded]_vars

\* C11, within one process: the failing cycle reports the entry of the
\* in-memory cache when the cache has one, and leaves the site out otherwise.
C11_FallbackFromCache ==
    [][ScrapeFailStep =>
          IF CurSite \in DOMAIN _streambeam_last_good
          THEN /\ ev'.cycle = "done"
               /\ Row.stage_ft = Some(_streambeam_last_good[CurSite])
               /\ sb_ev'.stale
          ELSE Excluded]_vars

\* A failing cycle that reported the reading validated by an earlier run.
C11_StaleReported ==
    /\ sb_ev.stale
    /\ ev.cycle = "done"
    /\ sb_ev.site \in DOMAIN feed_rows
    /\ feed_rows[sb_ev.site].stage_ft = accepted[sb_ev.site]
    /\ get_site_state(sb_ev.site).last_ts_iso = Some(now)

\* The fetch of the site at the loop position failed in this step: the branch
\* of a USGS or TVA site caught the exception, or the scrape did not succeed.
FetchFailedStep ==
    /\ pc = "running"
    /\ idx <= Len(cfg.sites)
    /\ idx' = idx + 1
    /\ \/ cfg.source[CurSite] \in {"usgs", "tva"} /\ ev'.cycle = "skip"
       \/ sb_ev'.site = CurSite /\ sb_ev'.reason = "fetch failed"

\* C12 (as claimed): a cycle whose fetch failed, for any source kind, dispatches
\* no alert for the site and leaves its stored state as it was.
C12_Claim ==
    [][FetchFailedStep =>
          /\ ev'.called = {}
          /\ ev'.sent = {}
          /\ Stored(conn', jsonFile', CurSite) = Stored(conn, jsonFile, CurSite)]_vars

\* C12 (amended): a failed fetch of a USGS or TVA site, and a failed fetch of a
\* scraped site that has no cached last good value, skip the site: no alert, no
\* row, the stored state as it was.  A failed fetch of a scraped site that has a
\* cached last good value is not a skip: the cycle runs on the cached value,
\* evaluates the alert rules on it and writes the site state.
C12_FetchFailureSkips ==
    [][FetchFailedStep =>
          IF cfg.source[CurSite] = "streambeam" /\ CurSite \in DOMAIN _streambeam_last_good
          THEN /\ ev'.cycle = "done"
               /\ Row.stage_ft = Some(_streambeam_last_good[CurSite])
               /\ After.last_stage_ft = Row.stage_ft
               /\ After.last_in = Row.in_range
               /\ ("IN" \in ev'.called) <=> RuleHolds("IN")
          ELSE Excluded]_vars

\* A scraped site whose fetch failed and whose cached value is in range: the
\* cycle sent the IN alert and stored the cooldown timestamp.
C12_Witness ==
    /\ sb_ev.reason = "fetch failed"
    /\ sb_ev.stale
    /\ ev.cycle = "done"
    /\ "IN" \in ev.sent
    /\ get_site_state(ev.site).last_alert_epoch = now

\* A USGS or TVA site whose fetch failed while an earlier site of the run was
\* processed.
C12_Skipped ==
    /\ ev.cycle = "skip"
    /\ cfg.source[ev.site] \in {"usgs", "tva"}
    /\ feed_rows # << >>

\* C13: a step changes a site's last known good value, in the cache of the
\* running process or in the table, only if it is a cycle of that site whose
\* reading lies inside the valid range and within max_change of the cached
\* value, and the new value is that reading; the start of a run loads the
\* cache of the new process from the table.
C13_LastGoodOnlyValidated ==
    [][\A s \in Sites :
          LET InCache(c) == IF s \in DOMAIN c THEN Some(c[s]) ELSE None
              old  == InCache(_streambeam_last_good)
              new  == InCache(_streambeam_last_good')
              oldT == InCache(streambeam_last_good)
              newT == InCache(streambeam_last_good')
              Validated(v) ==
                  /\ pc = "running" /\ idx <= Len(cfg.sites) /\ CurSite = s
                  /\ sb_ev'.site = s /\ sb_ev'.reason = "ok" /\ ~sb_ev'.stale
                  /\ v # None
                  /\ streambeam_entry.min_valid_ft <= Val(v)
                  /\ Val(v) <= streambeam_entry.max_valid_ft
                  /\ old # None => Abs(Val(v) - Val(old)) <= streambeam_entry.max_change_ft
                  /\ accepted'[s] = v
          IN  /\ (newT # oldT) => (Validated(newT) /\ new = newT)
              /\ IF pc = "idle"
                 THEN new = (IF cfg.state_db THEN oldT ELSE None)
                 ELSE (new # old) => Validated(new)]_vars

\* A reading rejected by the rate-of-change check left the stored and the
\* cached last known good value as they were, and the cached value was served.
C13_Witness ==
    /\ sb_ev.reason = "exceeds max change"
    /\ sb_ev.stale
    /\ sb_ev.site \in DOMAIN streambeam_last_good
    /\ streambeam_last_good[sb_ev.site] = _streambeam_last_good[sb_ev.site]
    /\ accepted[sb_ev.site] = Some(_streambeam_last_good[sb_ev.site])
    /\ feed_rows[sb_ev.site].stage_ft = accepted[sb_ev.site]

\* An accepted reading replaced an earlier, different last known good value.
C13_Replaced ==
    /\ sb_ev.reason = "ok"
    /\ sb_ev.site \in DOMAIN streambeam_last_good
    /\ sb_ev.site \in DOMAIN _streambeam_last_good
    /\ _streambeam_last_good[sb_ev.site] # streambeam_last_good[sb_ev.site]

\* The step is a cycle of a scraped site whose reading passed the validator.
ScrapeAcceptStep ==
    /\ pc = "running"
    /\ idx <= Len(cfg.sites)
    /\ idx' = idx + 1
    /\ sb_ev'.site = CurSite
    /\ sb_ev'.reason = "ok"

\* C23 (as claimed): after a cycle that accepts a scraped reading, the stored
\* last known good value of the site is the accepted value and equals the
\* cached one.
C23_Claim ==
    [][ScrapeAcceptStep =>
          /\ CurSite \in DOMAIN streambeam_last_good'
          /\ Some(streambeam_last_good'[CurSite]) = accepted'[CurSite]
          /\ CurSite \in DOMAIN _streambeam_last_good'
          /\ _streambeam_last_good'[CurSite] = streambeam_last_good'[CurSite]]_vars

\* C23, the cache alone, and the table when state_db is configured and the
\* run's connection holds no uncommitted write: the accepted value is there.
C23_CacheWrittenThrough ==
    [][ScrapeAcceptStep =>
          /\ CurSite \in DOMAIN _streambeam_last_good'
          /\ Some(_streambeam_last_good'[CurSite]) = accepted'[CurSite]
          /\ (cfg.state_db /\ conn = db) =>
                 /\ CurSite \in DOMAIN streambeam_last_good'
                 /\ Some(streambeam_last_good'[CurSite]) = accepted'[CurSite]]_vars

\* A reading was accepted after an earlier site of the run wrote its state:
\* the table still holds the older value, the cache the new one.
C23_TableBehind ==
    /\ cfg.state_db
    /\ sb_ev.reason = "ok"
    /\ sb_ev.site \in DOMAIN streambeam_last_good
    /\ Some(streambeam_last_good[sb_ev.site]) # accepted[sb_ev.site]
    /\ Some(_streambeam_last_good[sb_ev.site]) = accepted[sb_ev.site]

\* C14 (as claimed): whatever fails while a site is processed, the run goes on
\* to the next site of the batch, and a failed state write leaves the durable
\* state of every site as it was.
C14_Claim ==
    [][(pc = "running" /\ idx <= Len(cfg.sites)) =>
          /\ pc' = "running"
          /\ idx' = idx + 1
          /\ (ev'.cycle = "abort") =>
                \A s \in Sites : Stored(db', jsonFile', s) = Stored(db, jsonFile, s)]_vars

\* C15 (as claimed): when a run ends abnormally at a later site, the state
\* written by the completed cycles of the earlier sites is what the next run
\* reads: their last_in and the cooldown timestamps of the alerts they sent.
C15_Claim ==
    [][(pc = "running" /\ pc' = "idle" /\ ev'.cycle \in {"abort", "crash"}) =>
          \A s \in DOMAIN feed_rows :
              /\ Stored(db', jsonFile', s).last_in = feed_rows[s].in_range
              /\ \A k \in Kinds :
                    (lastSent[s][k] = now) => (Stored(db', jsonFile', s)[EpochField(k)] = now)]_vars

----------------------------------------------------------------------------
(* Specifications of the pure functions: the input is drawn in the initial *)
(* state, one step applies the function.                                   *)

\* The engine is not running.
EngineOff ==
    /\ cfg = << >>
    /\ clock = 0
    /\ pc = "off"
    /\ now = 0
    /\ idx = 1
    /\ db = << >>
    /\ conn = << >>
    /\ jsonFile = << >>
    /\ feed_rows = << >>
    /\ ev = NoEvent
    /\ lastSent = NeverSent
    /\ lastInRange = [s \in Sites |-> None]
    /\ _streambeam_last_good = << >>
    /\ streambeam_last_good = << >>
    /\ data_bound = FALSE
    /\ sb_ev = NoScrape
    /\ accepted = [s \in Sites |-> None]
    /\ procs = NoProcs

engineVars == <<cfg, clock, pc, now, idx, db, conn, jsonFile, feed_rows, ev, lastSent,
                lastInRange, _streambeam_last_good, streambeam_last_good, data_bound, sb_ev, accepted,
                procs>>

IsInVals == 0..2

InitIsIn ==
    /\ EngineOff
    /\ fn_in \in [stage : Opt(IsInVals), cfs : Opt(IsInVals),
                  th_ft : Opt(IsInVals), th_cfs : Opt(IsInVals)]
    /\ fn_out = << >>

ApplyIsIn ==
    /\ fn_out = << >>
    /\ fn_out' = <<is_in(fn_in.stage, fn_in.cfs, fn_in.th_ft, fn_in.th_cfs)>>
    /\ UNCHANGED <<fn_in, engineVars>>

SpecIsIn == InitIsIn /\ [][ApplyIsIn]_vars

\* C1: is_in is true iff every configured threshold has its measured value
\* present and >= the threshold; with no threshold configured it is true.
C1_InRangeIffConfiguredHold ==
    fn_out # << >> =>
        /\ Val(fn_out) <=>
              \A p \in {<<fn_in.th_ft, fn_in.stage>>, <<fn_in.th_cfs, fn_in.cfs>>} :
                  p[1] # None => (p[2] # None /\ Val(p[2]) >= Val(p[1]))
        /\ (fn_in.th_ft = None /\ fn_in.th_cfs = None) => Val(fn_out)
        /\ (fn_in.th_ft # None /\ fn_in.stage = None) => ~Val(fn_out)
        /\ (fn_in.th_cfs # None /\ fn_in.cfs = None) => ~Val(fn_out)

\* A value exactly equal to its threshold passes, the other threshold unset
\* and its value missing.
C1_Witness ==
    /\ fn_out = <<TRUE>>
    /\ fn_in.th_ft # None
    /\ fn_in.stage = fn_in.th_ft
    /\ fn_in.th_cfs = None
    /\ fn_in.cfs = None

----------------------------------------------------------------------------
(* qpf.py: QPFClient.get_qpf_by_day, the apportionment of forecast bins     *)
(* into local calendar days.  Instants are minutes UTC, counted from        *)
(* 00:00Z of the day the forecast is fetched; local date-times are          *)
(* wall-clock minutes.  Amounts are hundredths of a millimetre.             *)

MinutesPerDay == 1440

\* days: the number of day buckets asked for.
days == 2

\* A time zone: the UTC offset `std` applies before the instant `change`, the
\* offset `after` from it on (a daylight-saving transition); None: no change.
Chicago == [std |-> -360, change |-> None, after |-> -360]

\* Clocks go back one hour at 07:00Z of the second day (02:00 CDT -> 01:00 CST).
ChicagoFallBack == [std |-> -300, change |-> Some(MinutesPerDay + 420), after |-> -360]

\* Clocks go forward one hour at 08:00Z of the second day (02:00 CST -> 03:00 CDT).
ChicagoSpringForward == [std |-> -360, change |-> Some(MinutesPerDay + 480), after |-> -300]

TimeZones == {Chicago, ChicagoFallBack, ChicagoSpringForward}

utcoffset(tzinfo, t_utc) ==
    IF tzinfo.change # None /\ t_utc >= Val(tzinfo.change) THEN tzinfo.after ELSE tzinfo.std

\* datetime.astimezone(tzinfo): the wall-clock date-time of an instant.
\* Differences and comparisons of the results are wall-clock ones (datetime
\* arithmetic between values of one tzinfo ignores the offset).
astimezone(tzinfo, t_utc) == t_utc + utcoffset(tzinfo, t_utc)

\* iso_dur: the designator-number pairs after "PT", e.g. <<<<6, "H">>>>.
\* hours = minutes = 0; each H / M designator sets its component.
RECURSIVE ParseParts(_, _, _)
ParseParts(tpart, hours, minutes) ==
    IF tpart = << >> THEN hours * 60 + minutes
    ELSE LET num == Head(tpart)[1]
             ch  == Head(tpart)[2]
         IN  ParseParts(Tail(tpart),
                        IF ch = "H" THEN num ELSE hours,
                        IF ch = "M" THEN num ELSE minutes)

_parse_iso_duration(iso_dur) == ParseParts(iso_dur, 0, 0)

\* valid_time: [start, dur]; dur is None when the string has no "/" part, and
\* the duration is then "PT1H".
_parse_valid_time(valid_time) ==
    LET dur_str == IF valid_time.dur = None THEN <<<<1, "H">>>> ELSE Val(valid_time.dur)
    IN  [start |-> valid_time.start, dur |-> _parse_iso_duration(dur_str)]

\* day_edges: local midnight of today and of the following days (1-based).
day_edges(tzinfo, now_utc) ==
    LET now_local      == astimezone(tzinfo, now_utc)
        start_of_today == (now_local \div MinutesPerDay) * MinutesPerDay
    IN  [i \in 1..(days + 1) |-> start_of_today + (i - 1) * MinutesPerDay]

\* The loop `for i in range(days)` over one bin, from bucket i on; the key of
\* bucket i is the date of day_edges[i].
RECURSIVE Buckets(_, _, _, _, _, _)
Buckets(totals_mm, i, mm, start_local, end_local, edges) ==
    IF i > days THEN totals_mm
    ELSE LET seg_start   == Max2(start_local, edges[i])
             seg_end     == IF end_local <= edges[i + 1] THEN end_local ELSE edges[i + 1]
             overlap     == seg_end - seg_start
             bin_seconds == end_local - start_local
             date_key    == edges[i] \div MinutesPerDay
             old         == IF date_key \in DOMAIN totals_mm THEN totals_mm[date_key] ELSE 0
             next        == IF overlap > 0
                            THEN Put(totals_mm, date_key, old + (mm * overlap) \div bin_seconds)
                            ELSE totals_mm
         IN  Buckets(next, i + 1, mm, start_local, end_local, edges)

\* The body of `for item in values`.
\* A variant that treats a missing amount as a dry bin.
qpf_item_zerofill(totals_mm, item, tzinfo, edges) ==
    IF item.validTime = None THEN totals_mm
    ELSE LET vt          == _parse_valid_time(Val(item.validTime))
             start_local == astimezone(tzinfo, vt.start)
             end_local   == astimezone(tzinfo, vt.start + vt.dur)
         IN  IF end_local <= edges[1] \/ start_local >= edges[days + 1] THEN totals_mm
             ELSE IF end_local - start_local <= 0 THEN totals_mm
             ELSE Buckets(totals_mm, 1, IF item.value = None THEN 0 ELSE Val(item.value),
                          start_local, end_local, edges)

qpf_item(totals_mm, item, tzinfo, edges) ==
    IF item.value = None \/ item.validTime = None THEN totals_mm
    ELSE LET vt          == _parse_valid_time(Val(item.validTime))
             start_local == astimezone(tzinfo, vt.start)
             end_local   == astimezone(tzinfo, vt.start + vt.dur)
         IN  IF end_local <= edges[1] \/ start_local >= edges[days + 1] THEN totals_mm
             ELSE IF end_local - start_local <= 0 THEN totals_mm
             ELSE Buckets(totals_mm, 1, Val(item.value), start_local, end_local, edges)

RECURSIVE qpf_totals(_, _, _, _)
qpf_totals(totals_mm, values, tzinfo, edges) ==
    IF values = << >> THEN totals_mm
    ELSE qpf_totals(qpf_item(totals_mm, Head(values), tzinfo, edges), Tail(values),
                    tzinfo, edges)

\* round(mm * INCH_PER_MM, 2), in hundredths of an inch.
to_inches(mm) == (20 * mm + 254) \div 508

get_qpf_by_day(values, tzinfo, now_utc) ==
    LET totals_mm == qpf_totals(<< >>, values, tzinfo, day_edges(tzinfo, now_utc))
    IN  [totals_mm |-> totals_mm,
         totals_in |-> [d \in DOMAIN totals_mm |-> to_inches(totals_mm[d])]]

\* Forecast bins: starts before, across and after the edges of the window and
\* of the days, and in the hour before the clocks change.
QpfStarts == {0, 180, 360, 1620, 1800, 3060, 3240}

QpfDurations == {None, Some(<< >>), Some(<<<<1, "H">>>>), Some(<<<<6, "H">>>>),
                 Some(<<<<1, "H">>, <<30, "M">>>>)}

QpfAmounts == {0, 420}

QpfItems ==
    [validTime : {None} \cup {Some([start |-> st, dur |-> d]) :
                                  st \in QpfStarts, d \in QpfDurations},
     value : Opt(QpfAmounts)]

\* The second bin of a two-bin forecast.
QpfSecondItems ==
    [validTime : {Some([start |-> st, dur |-> Some(<<<<6, "H">>>>)]) : st \in {360, 1620}},
     value : Opt(QpfAmounts)]

\* The forecast is fetched at 12:00Z.
QpfNow == 720

InitQpf ==
    /\ EngineOff
    /\ fn_in \in [values : {<<a>> : a \in QpfItems}
                            \cup {<<a, b>> : a \in QpfItems, b \in QpfSecondItems},
                  tzinfo : TimeZones]
    /\ fn_out = << >>

ApplyQpf ==
    /\ fn_out = << >>
    /\ fn_out' = <<get_qpf_by_day(fn_in.values, fn_in.tzinfo, QpfNow)>>
    /\ UNCHANGED <<fn_in, engineVars>>

SpecQpf == InitQpf /\ [][ApplyQpf]_vars

\* Vocabulary of the claims about the apportionment: the bins of the forecast
\* that carry an amount, as intervals of instants, and the instants of the day
\* edges (local midnights).
QpfBins ==
    {i \in 1..Len(fn_in.values) :
        fn_in.values[i].value # None /\ fn_in.values[i].validTime # None}

RECURSIVE DurationMinutes(_)
DurationMinutes(parts) ==
    IF parts = << >> THEN 0
    ELSE (IF Head(parts)[2] = "H" THEN 60 * Head(parts)[1] ELSE Head(parts)[1])
             + DurationMinutes(Tail(parts))

BinAmount(i) == Val(fn_in.values[i].value)

BinStart(i) == Val(fn_in.values[i].validTime).start

BinDuration(i) ==
    LET d == Val(fn_in.values[i].validTime).dur
    IN  IF d = None THEN 60 ELSE DurationMinutes(Val(d))

BinEnd(i) == BinStart(i) + BinDuration(i)

\* The instant at which the local clock shows the wall-clock time w.
EdgeInstant(w) ==
    CHOOSE t \in {w - fn_in.tzinfo.std, w - fn_in.tzinfo.after} :
        astimezone(fn_in.tzinfo, t) = w

QpfEdge(j) == EdgeInstant(((astimezone(fn_in.tzinfo, QpfNow) \div MinutesPerDay) + (j - 1))
                              * MinutesPerDay)

\* overlap_seconds of bin i with day bucket j.
BinOverlap(i, j) ==
    LET lo == Max2(BinStart(i), QpfEdge(j))
        hi == IF BinEnd(i) <= QpfEdge(j + 1) THEN BinEnd(i) ELSE QpfEdge(j + 1)
    IN  Max2(0, hi - lo)

DayKey(j) == (astimezone(fn_in.tzinfo, QpfNow) \div MinutesPerDay) + (j - 1)

\* The amount the result holds for day bucket j (0 when the key is absent).
DayTotal(j) ==
    LET t == Val(fn_out).totals_mm
    IN  IF DayKey(j) \in DOMAIN t THEN t[DayKey(j)] ELSE 0

RECURSIVE SumDays(_)
SumDays(j) == IF j = 0 THEN 0 ELSE DayTotal(j) + SumDays(j - 1)

BinInside(i) == QpfEdge(1) <= BinStart(i) /\ BinEnd(i) <= QpfEdge(days + 1)

\* C17 (as claimed, for a forecast of one bin with a positive amount and a
\* positive duration): the amounts apportioned over all day buckets sum to at
\* most the bin's amount, and to exactly the amount iff the bin lies inside
\* the window [edge0, edgeD).
C17_Claim ==
    (fn_out # << >> /\ Len(fn_in.values) = 1 /\ QpfBins = {1}
        /\ BinAmount(1) > 0 /\ BinDuration(1) > 0) =>
            /\ SumDays(days) <= BinAmount(1)
            /\ (SumDays(days) = BinAmount(1)) <=> BinInside(1)

\* C17, in a time zone whose offset does not change: the same.
C17_FixedOffset ==
    (fn_out # << >> /\ Len(fn_in.values) = 1 /\ QpfBins = {1}
        /\ BinAmount(1) > 0 /\ BinDuration(1) > 0 /\ fn_in.tzinfo.change = None) =>
            /\ SumDays(days) <= BinAmount(1)
            /\ (SumDays(days) = BinAmount(1)) <=> BinInside(1)

\* A one-hour bin with rain, inside the window, in the hour before the clocks
\* go back: nothing of it is in the result.
C17_FallBackHourLost ==
    /\ fn_out # << >>
    /\ Len(fn_in.values) = 1 /\ QpfBins = {1}
    /\ BinAmount(1) > 0 /\ BinDuration(1) = 60 /\ BinInside(1)
    /\ Val(fn_out).totals_mm = << >>

\* The amount the claimed rule gives day bucket j: the sum over the bins of
\* amount * overlap_seconds / duration_seconds.
RECURSIVE ExpectedTotal(_, _)
ExpectedTotal(j, bins) ==
    IF bins = {} THEN 0
    ELSE LET i == CHOOSE b \in bins : TRUE
         IN  (IF BinDuration(i) > 0
              THEN (BinAmount(i) * BinOverlap(i, j)) \div BinDuration(i) ELSE 0)
                 + ExpectedTotal(j, bins \ {i})

\* C18 (as claimed): every day bucket receives, from every bin that overlaps
\* it, amount * overlap_seconds / duration_seconds; a bin that starts at a day
\* boundary gives all to the following day, a bin across midnight is split in
\* proportion to the time on each side.
C18_Claim ==
    fn_out # << >> =>
        \A j \in 1..days : DayTotal(j) = ExpectedTotal(j, QpfBins)

\* C18, in a time zone whose offset does not change: the same.
C18_FixedOffset ==
    (fn_out # << >> /\ fn_in.tzinfo.change = None) =>
        \A j \in 1..days : DayTotal(j) = ExpectedTotal(j, QpfBins)

\* A bin across midnight split in two halves.
C18_SplitAtMidnight ==
    /\ fn_out # << >>
    /\ Len(fn_in.values) = 1 /\ QpfBins = {1}
    /\ DayTotal(1) = 210 /\ DayTotal(2) = 210

C19_ZeroBucket ==
    /\ fn_out # << >>
    /\ \A i \in QpfBins : BinAmount(i) = 0
    /\ \E d \in DOMAIN Val(fn_out).totals_in : Val(fn_out).totals_in[d] = 0

\* ---------------------------------------------------------------------------
\* calculate_percent_change: the change from the oldest to the newest value of
\* a trend series. The values are whole numbers of units; the percent change
\* is the fraction num/den with den > 0.
\* ---------------------------------------------------------------------------
MaxSeries == 3

TrendVals == {-200, 0, 199, 200, 201, 300}

RECURSIVE SeqsUpTo(_, _)
SeqsUpTo(S, n) ==
    IF n = 0 THEN {<< >>}
    ELSE LET shorter == SeqsUpTo(S, n - 1)
         IN  shorter \cup {Append(q, x) : q \in {r \in shorter : Len(r) = n - 1}, x \in S}

\* trend_data: None, the empty dict, or a dict with the key "values".
TrendData ==
    {None, Some(<< >>)} \cup {Some([values |-> q]) : q \in SeqsUpTo(TrendVals, MaxSeries)}

Percent(new_val, old_val) ==
    IF old_val > 0 THEN [num |-> (new_val - old_val) * 100, den |-> old_val]
    ELSE [num |-> (old_val - new_val) * 100, den |-> -old_val]

\* A variant that measures the change over the last step of the series.
calculate_percent_change_laststep(trend_data) ==
    IF trend_data = None \/ "values" \notin DOMAIN Val(trend_data)
        \/ Val(trend_data).values = << >>
    THEN <<None, "flat">>
    ELSE LET values == Val(trend_data).values
         IN  IF Len(values) < 2 THEN <<None, "flat">>
             ELSE LET old_val    == values[Len(values) - 1]
                      new_val    == values[Len(values)]
                      pct_change == Percent(new_val, old_val)
                  IN  IF old_val = 0 THEN <<None, "flat">>
                      ELSE IF 2 * pct_change.num > pct_change.den
                           THEN <<Some(pct_change), "up">>
                      ELSE IF 2 * pct_change.num < -pct_change.den
                           THEN <<Some(pct_change), "down">>
                      ELSE <<Some(pct_change), "flat">>

calculate_percent_change(trend_data) ==
    IF trend_data = None \/ "values" \notin DOMAIN Val(trend_data)
        \/ Val(trend_data).values = << >>
    THEN <<None, "flat">>
    ELSE LET values == Val(trend_data).values
         IN  IF Len(values) < 2 THEN <<None, "flat">>
             ELSE LET old_val    == values[1]
                      new_val    == values[Len(values)]
                      pct_change == Percent(new_val, old_val)
                  IN  IF old_val = 0 THEN <<None, "flat">>
                      ELSE IF 2 * pct_change.num > pct_change.den
                           THEN <<Some(pct_change), "up">>
                      ELSE IF 2 * pct_change.num < -pct_change.den
                           THEN <<Some(pct_change), "down">>
                      ELSE <<Some(pct_change), "flat">>

InitPct ==
    /\ EngineOff
    /\ fn_in \in TrendData
    /\ fn_out = << >>

ApplyPct ==
    /\ fn_out = << >>
    /\ fn_out' = <<calculate_percent_change(fn_in)>>
    /\ UNCHANGED <<fn_in, engineVars>>

SpecPct == InitPct /\ [][ApplyPct]_vars

\* The series of the input, empty when the input has none.
SeriesOf(trend_data) ==
    IF trend_data = None \/ "values" \notin DOMAIN Val(trend_data) THEN << >>
    ELSE Val(trend_data).values

\* C20: the result is (none, flat) when the series is missing, empty, shorter
\* than 2 or starts with 0; otherwise the percent is (last-first)/first*100 of
\* the first and last values, with direction up when it is above +0.5, down
\* when below -0.5 and flat otherwise.
C20_PercentChange ==
    fn_out # << >> =>
        LET series    == SeriesOf(fn_in)
            pct       == Val(fn_out)[1]
            direction == Val(fn_out)[2]
        IN  IF Len(series) < 2 \/ series[1] = 0
            THEN pct = None /\ direction = "flat"
            ELSE LET first == series[1]
                     last  == series[Len(series)]
                     \* 200 * (last-first)/first, compared with 1 and -1
                     above == IF first > 0 THEN 200 * (last - first) > first
                                           ELSE 200 * (last - first) < first
                     below == IF first > 0 THEN 200 * (last - first) < -first
                                           ELSE 200 * (last - first) > -first
                 IN  /\ pct # None
                     /\ Val(pct).den > 0
                     /\ Val(pct).num * first = (last - first) * 100 * Val(pct).den
                     /\ direction = IF above THEN "up" ELSE IF below THEN "down" ELSE "flat"

\* A series of three values that rises and then falls below its first value:
\* the result is a negative percent with direction down.
C20_Witness ==
    /\ fn_out # << >>
    /\ Len(SeriesOf(fn_in)) = 3
    /\ SeriesOf(fn_in)[2] > SeriesOf(fn_in)[1]
    /\ SeriesOf(fn_in)[1] > 0
    /\ Val(fn_out)[1] # None
    /\ Val(Val(fn_out)[1]).num < 0
    /\ Val(fn_out)[2] = "down"

\* A change of exactly half a percent is flat.
C20_HalfPercentFlat ==
    /\ fn_out # << >>
    /\ Val(fn_out)[1] # None
    /\ 2 * Val(Val(fn_out)[1]).num = Val(Val(fn_out)[1]).den
    /\ Val(fn_out)[2] = "flat"

\* ---------------------------------------------------------------------------
\* render_static_html.row_html: the display class of a row of the feed (the
\* config-based classification; one site id has its own table of flows).
\* ---------------------------------------------------------------------------
is_good(stage_ft, cfs, good_ft, good_cfs) ==
    \/ (good_ft # None /\ stage_ft # None /\ Val(stage_ft) >= Val(good_ft))
    \/ (good_cfs # None /\ cfs # None /\ Val(cfs) >= Val(good_cfs))

row_class(r) ==
    IF is_good(r.stage_ft, r.cfs, r.good_ft, r.good_cfs) THEN "good"
    ELSE IF r.in_range THEN "in"
    ELSE "out"

GoodVals == {1, 2, 5}

\* The rows main() appends: in_range is is_in of the reading and the alert
\* thresholds of the site.
FeedRows ==
    {[stage_ft |-> st, cfs |-> q, threshold_ft |-> tf, threshold_cfs |-> tc,
      good_ft |-> gf, good_cfs |-> gc, in_range |-> is_in(st, q, tf, tc)] :
        st \in Opt(GoodVals), q \in Opt(GoodVals), tf \in Opt({2}), tc \in Opt({2}),
        gf \in Opt(GoodVals), gc \in Opt(GoodVals)}

InitGood ==
    /\ EngineOff
    /\ fn_in \in FeedRows
    /\ fn_out = << >>

ApplyGood ==
    /\ fn_out = << >>
    /\ fn_out' = <<[is_good |-> is_good(fn_in.stage_ft, fn_in.cfs, fn_in.good_ft,
                                        fn_in.good_cfs),
                    cls     |-> row_class(fn_in)]>>
    /\ UNCHANGED <<fn_in, engineVars>>

SpecGood == InitGood /\ [][ApplyGood]_vars

\* C21 (as claimed): the good flag of a row is the in-range logic applied to
\* good_ft/good_cfs: every configured good threshold is met by a present
\* value, and an unset good threshold does not block.
C21_Claim ==
    fn_out # << >> =>
        (Val(fn_out).is_good
            <=> is_in(fn_in.stage_ft, fn_in.cfs, fn_in.good_ft, fn_in.good_cfs))

\* C21, the rows with exactly one good threshold configured: the good flag is
\* the in-range logic applied to it.
C21_OneThreshold ==
    (fn_out # << >> /\ ((fn_in.good_ft = None) # (fn_in.good_cfs = None))) =>
        (Val(fn_out).is_good
            <=> is_in(fn_in.stage_ft, fn_in.cfs, fn_in.good_ft, fn_in.good_cfs))

\* Both good thresholds configured, the flow below its good threshold and
\* below the alert threshold: the row is out of range and shown as good.
C21_GoodWhileOut ==
    /\ fn_out # << >>
    /\ fn_in.good_ft # None /\ fn_in.good_cfs # None
    /\ fn_in.cfs # None /\ Val(fn_in.cfs) < Val(fn_in.good_cfs)
    /\ ~fn_in.in_range
    /\ Val(fn_out).cls = "good"

\* ---------------------------------------------------------------------------
\* The row main() publishes for a scraped site: the streambeam branch, its
\* trend label and the trend_8h field of feed_rows.append.
\* args: trend_hours (--trend-hours, default 0) and dump (--dump-json or
\* --dump-html given); direction: what _get_streambeam_trend_data found in
\* the history (no value when it returned None).
\* ---------------------------------------------------------------------------
TrendHours == {0, 8}

Directions == {"rising", "falling", "steady"}

scraped_row(result, last_good, args, direction) ==
    LET v                == fetch_streambeam_latest(streambeam_entry, result, last_good)
        streambeam_error == v.raised # ""
        trend_data       == IF args.dump THEN direction ELSE None
        trend_label      == IF streambeam_error THEN Some("stale")
                            ELSE IF trend_data # None THEN trend_data
                            ELSE None
    IN  IF streambeam_error /\ last_good = None THEN None
        ELSE Some([stage_ft    |-> IF streambeam_error THEN last_good ELSE v.stage_ft,
                   substituted |-> streambeam_error,
                   trend_8h    |-> IF args.trend_hours # 0 THEN trend_label ELSE None])

InitStale ==
    /\ EngineOff
    /\ fn_in \in [result : SiteScrapes, last_good : Opt({3}),
                  args : [trend_hours : TrendHours, dump : BOOLEAN],
                  direction : Opt(Directions)]
    /\ fn_out = << >>

ApplyStale ==
    /\ fn_out = << >>
    /\ fn_out' = <<scraped_row(fn_in.result, fn_in.last_good, fn_in.args, fn_in.direction)>>
    /\ UNCHANGED <<fn_in, engineVars>>

SpecStale == InitStale /\ [][ApplyStale]_vars

\* C24 (as claimed): whatever the options of the run, the row published by a
\* cycle that substitutes the last known good value carries the stale marker.
C24_Claim ==
    (fn_out # << >> /\ Val(fn_out) # None /\ Val(Val(fn_out)).substituted) =>
        Val(Val(fn_out)).trend_8h = Some("stale")

\* C24, the runs with --trend-hours: the row that holds a substituted value
\* carries the stale marker, and no other row does.
C24_StaleWithTrendHours ==
    (fn_out # << >> /\ Val(fn_out) # None /\ fn_in.args.trend_hours # 0) =>
        (Val(Val(fn_out)).substituted <=> (Val(Val(fn_out)).trend_8h = Some("stale")))

\* A reading rejected by the validator, the last known good value published
\* in its place with the stale marker.
C24_MarkedWithTrendHours ==
    /\ fn_out # << >>
    /\ Val(fn_out) # None
    /\ fn_in.result.ok
    /\ fn_in.args.trend_hours # 0
    /\ Val(Val(fn_out)).substituted
    /\ Val(Val(fn_out)).stage_ft = fn_in.last_good
    /\ Val(Val(fn_out)).trend_8h = Some("stale")

\* A run without --trend-hours: the substituted value is published unmarked.
C24_Unmarked ==
    /\ fn_out # << >>
    /\ Val(fn_out) # None
    /\ Val(Val(fn_out)).substituted
    /\ Val(Val(fn_out)).trend_8h = None

\* ---------------------------------------------------------------------------
\* Trend direction of a value series, per source kind.  Stages are in
\* hundredths of a foot, discharges in cfs.
\* ---------------------------------------------------------------------------
MaxTrendLen == 5

TrendSeriesVals == {100, 103, 110, 1000, 1060}

RECURSIVE SumSeq(_)
SumSeq(q) == IF q = << >> THEN 0 ELSE Head(q) + SumSeq(Tail(q))

Min2(a, b) == IF a <= b THEN a ELSE b

\* fetch_trend_data (USGS): delta = values[-1] - values[0], eps = 0.02.
fetch_trend_data_direction(values) ==
    IF Len(values) < 2 THEN None
    ELSE LET delta == values[Len(values)] - values[1]
             eps   == 2
         IN  IF delta > eps THEN Some("rising")
             ELSE IF delta < -eps THEN Some("falling")
             ELSE Some("steady")

\* _get_streambeam_trend_data: the mean of values[:3] against the mean of
\* values[-3:], both divided by min(3, len(values)), tolerance 0.05.
_get_streambeam_trend_data(values) ==
    IF Len(values) < 2 THEN None
    ELSE LET n         == Min2(3, Len(values))
             first_sum == SumSeq(SubSeq(values, 1, n))
             last_sum  == SumSeq(SubSeq(values, Len(values) - n + 1, Len(values)))
         IN  IF last_sum - first_sum > 5 * n THEN Some("rising")
             ELSE IF last_sum - first_sum < -(5 * n) THEN Some("falling")
             ELSE Some("steady")

\* get_tva_trend_data: threshold = max(values[0] * 0.1, 50) if values[0] > 0
\* else 50.
get_tva_trend_data(values) ==
    IF Len(values) < 2 THEN None
    ELSE LET delta        == values[Len(values)] - values[1]
             threshold_x10 == IF values[1] > 0 THEN Max2(values[1], 500) ELSE 500
         IN  IF 10 * delta > threshold_x10 THEN Some("rising")
             ELSE IF 10 * delta < -threshold_x10 THEN Some("falling")
             ELSE Some("steady")

trend_direction(source, values) ==
    CASE source = "usgs" -> fetch_trend_data_direction(values)
      [] source = "streambeam" -> _get_streambeam_trend_data(values)
      [] source = "tva" -> get_tva_trend_data(values)

InitTrend ==
    /\ EngineOff
    /\ fn_in \in [source : {"usgs", "streambeam", "tva"},
                  values : SeqsUpTo(TrendSeriesVals, MaxTrendLen)]
    /\ fn_out = << >>

ApplyTrend ==
    /\ fn_out = << >>
    /\ fn_out' = <<trend_direction(fn_in.source, fn_in.values)>>
    /\ UNCHANGED <<fn_in, engineVars>>

SpecTrend == InitTrend /\ [][ApplyTrend]_vars

\* The tolerance of a source kind, in the unit of its series.
TrendEps(source) ==
    CASE source = "usgs" -> 2
      [] source = "streambeam" -> 5
      [] source = "tva" -> 50

\* The direction of the claimed rule: last - first against the tolerance.
FirstLastDirection(values, eps) ==
    LET delta == values[Len(values)] - values[1]
    IN  IF delta > eps THEN "rising" ELSE IF delta < -eps THEN "falling" ELSE "steady"

\* C25 (as claimed): for every source kind a series of at least 2 points is
\* rising iff last - first > eps, falling iff last - first < -eps and steady
\* otherwise, for the fixed tolerance eps of the source; a shorter series
\* gives no summary.
C25_Claim ==
    fn_out # << >> =>
        IF Len(fn_in.values) < 2 THEN Val(fn_out) = None
        ELSE Val(fn_out) = Some(FirstLastDirection(fn_in.values, TrendEps(fn_in.source)))

\* C25, the USGS series: the same.
C25_UsgsFirstLast ==
    (fn_out # << >> /\ fn_in.source = "usgs") =>
        IF Len(fn_in.values) < 2 THEN Val(fn_out) = None
        ELSE Val(fn_out) = Some(FirstLastDirection(fn_in.values, TrendEps("usgs")))

\* A scraped series of two points that rises by 9 ft is called steady.
C25_TwoPointsSteady ==
    /\ fn_out # << >>
    /\ fn_in.source = "streambeam"
    /\ fn_in.values = <<100, 1000>>
    /\ Val(fn_out) = Some("steady")

\* A scraped series whose last value is above its first is called falling.
C25_ScrapedReversed ==
    /\ fn_out # << >>
    /\ fn_in.source = "streambeam"
    /\ Len(fn_in.values) >= 2
    /\ fn_in.values[Len(fn_in.values)] - fn_in.values[1] > 5
    /\ Val(fn_out) = Some("falling")

\* A TVA series that rises by 60 cfs from 1000 cfs is called steady.
C25_TvaRelativeTolerance ==
    /\ fn_out # << >>
    /\ fn_in.source = "tva"
    /\ fn_in.values = <<1000, 1060>>
    /\ Val(fn_out) = Some("steady")

\* ---------------------------------------------------------------------------
\* Sampling a series down to the bars of the sparkline (fetch_trend_data and
\* get_tva_trend_data share the code).
\* ---------------------------------------------------------------------------
target_bars == 12

MaxSamples == 30

\* [values[i] for i in range(0, len(values), step)]
EveryNth(values, step) ==
    [k \in 1..((Len(values) + step - 1) \div step) |-> values[(k - 1) * step + 1]]

\* The sampling without the cut to target_bars values.
sampled_uncut(values) ==
    IF Len(values) > target_bars
    THEN EveryNth(values, Len(values) \div target_bars)
    ELSE values

sampled(values) ==
    IF Len(values) > target_bars
    THEN LET step == Len(values) \div target_bars
             all  == EveryNth(values, step)
         IN  SubSeq(all, 1, Min2(target_bars, Len(all)))
    ELSE values

\* Series of every length up to MaxSamples: a ramp of distinct values, a
\* saw-tooth, a series of negative values and a constant one.
SampleSeries ==
    {[i \in 1..n |-> CASE shape = "ramp" -> 100 + i
                        [] shape = "saw"  -> 100 + (i % 5)
                        [] shape = "neg"  -> (i % 7) - 20
                        [] shape = "flat" -> 100] :
        n \in 0..MaxSamples, shape \in {"ramp", "saw", "neg", "flat"}}

InitSample ==
    /\ EngineOff
    /\ fn_in \in SampleSeries
    /\ fn_out = << >>

ApplySample ==
    /\ fn_out = << >>
    /\ fn_out' = <<sampled(fn_in)>>
    /\ UNCHANGED <<fn_in, engineVars>>

SpecSample == InitSample /\ [][ApplySample]_vars

\* C26: a series of at most 12 values is returned unchanged; a longer one
\* gives exactly 12 values, the observed values at the indices 0, s, 2s, ...
\* with s = floor(len / 12), in input order.
C26_Downsample ==
    fn_out # << >> =>
        LET out == Val(fn_out)
            len == Len(fn_in)
            s   == len \div 12
        IN  IF len <= 12 THEN out = fn_in
            ELSE /\ Len(out) = 12
                 /\ \A k \in 0..11 : out[k + 1] = fn_in[k * s + 1]

\* A series of 25 distinct values sampled at every second index.
C26_Witness ==
    /\ fn_out # << >>
    /\ Len(fn_in) = 25
    /\ fn_in[2] # fn_in[3]
    /\ Len(Val(fn_out)) = 12
    /\ Val(fn_out)[2] = fn_in[3]
    /\ Val(fn_out)[12] = fn_in[23]

\* ---------------------------------------------------------------------------
\* The percent change row_html publishes next to the sparkline: it is computed
\* from the trend_data of the row, whose values fetch_trend_data sampled.
\* ---------------------------------------------------------------------------
\* Observed series: a first value, a run of equal values, a newest value.
ObservedEnds == {-200, 100, 110}

ObservedSeries ==
    {[i \in 1..n |-> IF i = 1 THEN first ELSE IF i = n THEN last ELSE mid] :
        n \in 2..MaxSamples, first \in ObservedEnds, mid \in ObservedEnds,
        last \in ObservedEnds}

\* fetch_trend_data's result for the observed values, then row_html.
published_percent_change(values) ==
    calculate_percent_change(Some([values |-> sampled(values)]))

InitPublished ==
    /\ EngineOff
    /\ fn_in \in ObservedSeries
    /\ fn_out = << >>

ApplyPublished ==
    /\ fn_out = << >>
    /\ fn_out' = <<published_percent_change(fn_in)>>
    /\ UNCHANGED <<fn_in, engineVars>>

SpecPublished == InitPublished /\ [][ApplyPublished]_vars

\* C29 (as claimed): the direction published for a series of at least 2
\* observed values is up only if the newest observed value is greater than the
\* oldest, and down only if it is smaller.
C29_Claim ==
    fn_out # << >> =>
        /\ (Val(fn_out)[2] = "up") => (fn_in[Len(fn_in)] > fn_in[1])
        /\ (Val(fn_out)[2] = "down") => (fn_in[Len(fn_in)] < fn_in[1])

\* C29, the series of at most 12 values that start above zero: the same.
C29_ShortPositive ==
    (fn_out # << >> /\ Len(fn_in) <= target_bars /\ fn_in[1] > 0) =>
        /\ (Val(fn_out)[2] = "up") => (fn_in[Len(fn_in)] > fn_in[1])
        /\ (Val(fn_out)[2] = "down") => (fn_in[Len(fn_in)] < fn_in[1])

\* Thirteen positive values of which the newest is the highest: published as
\* flat or down, the newest value is not among the samples.
C29_NewestDropped ==
    /\ fn_out # << >>
    /\ Len(fn_in) = 13
    /\ fn_in[1] = 100 /\ fn_in[13] = 110
    /\ Val(fn_out)[2] # "up"

\* A series that rises from a negative value is published as down.
C29_NegativeReversed ==
    /\ fn_out # << >>
    /\ Len(fn_in) = 2
    /\ fn_in[1] < 0 /\ fn_in[2] > fn_in[1]
    /\ Val(fn_out)[2] = "down"

ScrapeResults ==
    {[ok |-> FALSE, adjusted_ft |-> 0]} \cup {[ok |-> TRUE, adjusted_ft |-> v] : v \in -1..5}

InitValidate ==
    /\ EngineOff
    /\ fn_in \in [entry : [min_valid_ft : {0, 1}, max_valid_ft : {3, 4},
                           max_change_ft : {1, 2}],
                  result : ScrapeResults,
                  last_good : Opt(0..4)]
    /\ fn_out = << >>

ApplyValidate ==
    /\ fn_out = << >>
    /\ fn_out' = <<fetch_streambeam_latest(fn_in.entry, fn_in.result, fn_in.last_good)>>
    /\ UNCHANGED <<fn_in, engineVars>>

SpecValidate == InitValidate /\ [][ApplyValidate]_vars

\* C10: the validator rejects a missing value first, then a value outside
\* [min_valid, max_valid], then a change from the last known good value above
\* max_change; every other value is accepted, and without a last known good
\* value only the bounds are checked.
C10_ValidateRulesInOrder ==
    fn_out # << >> =>
        LET r       == Val(fn_out)
            e       == fn_in.entry
            present == fn_in.result.ok
            v       == fn_in.result.adjusted_ft
            lg      == fn_in.last_good
            inside  == e.min_valid_ft <= v /\ v <= e.max_valid_ft
            jump    == lg # None /\ Abs(v - Val(lg)) > e.max_change_ft
        IN  /\ (r.reason = "fetch failed") <=> ~present
            /\ (r.reason = "outside valid range") <=> (present /\ ~inside)
            /\ (r.reason = "exceeds max change") <=> (present /\ inside /\ jump)
            /\ (r.reason = "ok") <=> (present /\ inside /\ ~jump)
            /\ (r.raised = "") <=> (r.reason = "ok")
            /\ (r.reason = "ok") => (r.stage_ft = Some(v) /\ r.last_good = Some(v))
            /\ (r.reason # "ok") => (r.stage_ft = None /\ r.last_good = lg)
            /\ (present /\ lg = None) => ((r.reason = "ok") <=> inside)

\* A reading on the upper bound that changed by exactly max_change is accepted.
C10_Witness ==
    /\ fn_out # << >>
    /\ Val(fn_out).reason = "ok"
    /\ fn_in.result.adjusted_ft = fn_in.entry.max_valid_ft
    /\ fn_in.last_good # None
    /\ Abs(fn_in.result.adjusted_ft - Val(fn_in.last_good)) = fn_in.entry.max_change_ft

\* A first-ever reading far from any earlier value is accepted on the bounds alone.
C10_FirstReading ==
    /\ fn_out # << >>
    /\ Val(fn_out).reason = "ok"
    /\ fn_in.last_good = None

====
